---- MODULE Spec2Model ----
(***************************************************************************)
(* Model of the manifest-driven TrialManager                               *)
(* (StudentFolders/Experiment/TrialManager.js): the participant-seeded     *)
(* generator, Latin-square counterbalancing, the color pool, startBlock    *)
(* and generateTrial.                                                      *)
(***************************************************************************)
EXTENDS Integers, Sequences, FiniteSets, TLC

(***************************************************************************)
(* 32-bit words.  TLC's integers are 32-bit signed, so a JavaScript int32  *)
(* / uint32 value is kept as <<hi, lo>>, two 16-bit halves of its          *)
(* unsigned representation.                                                *)
(***************************************************************************)
Half == 65536

\* The element of a singleton set.  The({e(x) : x \in {v}}) is e(v) with v
\* evaluated once, where LET x == v IN e(x) evaluates v at every use of x.
The(S) == CHOOSE x \in S : TRUE

\* F(a, b) with each argument evaluated once
Strict2(F(_, _), a, b) == The({F(p[1], p[2]) : p \in {<<a, b>>}})

\* ToInt32 of a (small) integer: two's complement for negative values.
ToWord(i) ==
    IF i >= 0 THEN <<(i \div Half) % Half, i % Half>>
    ELSE LET m == (-i) - 1
         IN  <<(Half - 1) - ((m \div Half) % Half), (Half - 1) - (m % Half)>>

RECURSIVE XorBits(_, _, _)
XorBits(x, y, n) ==
    IF n = 0 THEN 0
    ELSE ((x + y) % 2) + 2 * XorBits(x \div 2, y \div 2, n - 1)

RECURSIVE OrBits(_, _, _)
OrBits(x, y, n) ==
    IF n = 0 THEN 0
    ELSE (IF x % 2 = 1 \/ y % 2 = 1 THEN 1 ELSE 0)
         + 2 * OrBits(x \div 2, y \div 2, n - 1)

\* ^ and | on 4-bit digits, tabulated
XorTable == [x \in 0..15 |-> [y \in 0..15 |-> XorBits(x, y, 4)]]

OrTable == [x \in 0..15 |-> [y \in 0..15 |-> OrBits(x, y, 4)]]

\* A bitwise operation on 16-bit numbers, digit by digit
Digits16(table, x, y) ==
    table[x % 16][y % 16]
    + 16 * table[(x \div 16) % 16][(y \div 16) % 16]
    + 256 * table[(x \div 256) % 16][(y \div 256) % 16]
    + 4096 * table[x \div 4096][y \div 4096]

AddWords(a, b) ==
    <<(a[1] + b[1] + ((a[2] + b[2]) \div Half)) % Half, (a[2] + b[2]) % Half>>

XorWords(a, b) == <<Digits16(XorTable, a[1], b[1]), Digits16(XorTable, a[2], b[2])>>

OrWords(k, a) == <<a[1], Digits16(OrTable, k, a[2])>>

RECURSIVE Pow2(_)
Pow2(k) == IF k = 0 THEN 1 ELSE 2 * Pow2(k - 1)

ShrWords(a, k) ==
    <<a[1] \div Pow2(k), (a[1] % Pow2(k)) * Pow2(16 - k) + a[2] \div Pow2(k)>>

\* The low 16 bits of x * y + 65536 * carry-free rest: the 32-bit product
\* of two 16-bit numbers, as <<hi, lo>>.
Mul16(x, y) ==
    <<(((x * (y % 256) + 256 * ((x * (y \div 256)) % 256)) \div Half)
         + (x * (y \div 256)) \div 256) % Half,
      (x * (y % 256) + 256 * ((x * (y \div 256)) % 256)) % Half>>

ImulWords(a, b) ==
    <<(Mul16(a[2], b[2])[1] + Mul16(a[1], b[2])[2] + Mul16(a[2], b[1])[2]) % Half,
      Mul16(a[2], b[2])[2]>>

\* a + b | 0
Add32(a, b) == Strict2(AddWords, a, b)

\* a ^ b
Xor32(a, b) == Strict2(XorWords, a, b)

\* k | a for a constant 0 <= k < 65536
Or32(k, a) == Strict2(OrWords, k, a)

\* a >>> k for 0 < k < 16
Shr32(a, k) == Strict2(ShrWords, a, k)

\* Math.imul(a, b): the low 32 bits of the product
Imul(a, b) == Strict2(ImulWords, a, b)

(***************************************************************************)
(* seededRandom(seed): one call of the returned closure.  The closure's    *)
(* captured variable is the state; the result is the state after the call  *)
(* and the 32-bit numerator u of the returned float u / 4294967296.        *)
(***************************************************************************)
MulberryIncrement == <<27947, 31221>>   \* 0x6D2B79F5

seededRandom(seed) == ToWord(seed)

\* seed |= 0; seed = seed + 0x6D2B79F5 | 0
MulberryAdvance(seed) == Add32(seed, MulberryIncrement)

\* let t = Math.imul(seed ^ seed >>> 15, 1 | seed)
MulberryMix1(s) == Imul(Xor32(s, Shr32(s, 15)), Or32(1, s))

\* t = t + Math.imul(t ^ t >>> 7, 61 | t) ^ t
MulberryMix2(t) == Xor32(Add32(t, Imul(Xor32(t, Shr32(t, 7)), Or32(61, t))), t)

\* (t ^ t >>> 14) >>> 0
MulberryOut(t) == Xor32(t, Shr32(t, 14))

RngNext(seed) ==
    The({[seed |-> s,
          u |-> The({MulberryOut(t2) :
                     t2 \in {The({MulberryMix2(t1) : t1 \in {MulberryMix1(s)}})}})] :
         s \in {MulberryAdvance(seed)}})

\* Math.floor(rng() * n) for the numerator u, 0-based.
FloorScale(u, n) == (u[1] * n + (u[2] * n) \div Half) \div Half

(***************************************************************************)
(* JavaScript values.  A property that is undefined reads as the string    *)
(* "undefined" (which is also the key it is coerced to when it indexes an  *)
(* object); an undefined array is the empty sequence: the only arrays that *)
(* can be undefined here are blockDifficultyOrder, whose defined values    *)
(* are rows of a Latin square over a non-empty key list, and               *)
(* remainingColors, which every reader treats as it treats [] (line 785).  *)
(***************************************************************************)
Undefined == "undefined"

UndefinedArray == <<>>

\* arr[i] for a 0-based index i
At(arr, i) == IF i >= 0 /\ i < Len(arr) THEN arr[i + 1] ELSE Undefined

\* arr.filter(x => x !== v)
RECURSIVE Without(_, _)
Without(arr, v) ==
    IF arr = <<>> THEN <<>>
    ELSE IF Head(arr) = v THEN Without(Tail(arr), v)
         ELSE <<Head(arr)>> \o Without(Tail(arr), v)

\* arr.splice(i, 1) leaves arr without its element at 0-based index i
SpliceOut(arr, i) ==
    [k \in 1..(Len(arr) - 1) |-> IF k <= i THEN arr[k] ELSE arr[k + 1]]

Range(seq) == {seq[k] : k \in 1..Len(seq)}

(***************************************************************************)
(* trial_manifest.json.  The file is not part of the sources; the model    *)
(* draws it from a small set of manifests of the documented shape.         *)
(* difficultyLevels is kept as the ordered list of its entries, so that    *)
(* Object.keys is the list of their names.                                 *)
(***************************************************************************)
CanonicalRatio == "1.00"

ManifestScenario ==
    [shapes |-> <<"circle", "square">>,
     colors |-> <<"red", "blue", "green">>,
     difficultyLevels |-> <<[name |-> "easy", ratios |-> <<"1.25">>],
                            [name |-> "hard", ratios |-> <<"1.50">>]>>,
     blocks |-> 2,
     trialsPerBlock |-> 1,
     practice |-> [enabled |-> TRUE, blocks |-> 1, trialsPerBlock |-> 1,
                   allowColorRepeat |-> FALSE],
     constraints |-> [noColorRepeatAcrossBlocks |-> TRUE,
                      targetRatio |-> CanonicalRatio]]

ManifestThreeLevels ==
    [shapes |-> <<"circle", "square", "triangle">>,
     colors |-> <<"red", "blue">>,
     difficultyLevels |-> <<[name |-> "easy", ratios |-> <<"1.10", "1.25">>],
                            [name |-> "medium", ratios |-> <<"1.40", "1.50">>],
                            [name |-> "hard", ratios |-> <<"1.75", "2.00">>]>>,
     blocks |-> 2,
     trialsPerBlock |-> 2,
     practice |-> [enabled |-> TRUE, blocks |-> 1, trialsPerBlock |-> 1,
                   allowColorRepeat |-> FALSE],
     constraints |-> [noColorRepeatAcrossBlocks |-> TRUE,
                      targetRatio |-> CanonicalRatio]]

ManifestOneLevel ==
    [shapes |-> <<"circle">>,
     colors |-> <<"red", "blue">>,
     difficultyLevels |-> <<[name |-> "easy", ratios |-> <<"1.25", "1.50">>]>>,
     blocks |-> 1,
     trialsPerBlock |-> 2,
     practice |-> [enabled |-> TRUE, blocks |-> 1, trialsPerBlock |-> 2,
                   allowColorRepeat |-> TRUE],
     constraints |-> [noColorRepeatAcrossBlocks |-> TRUE,
                      targetRatio |-> CanonicalRatio]]

Manifests == {ManifestScenario, ManifestThreeLevels, ManifestOneLevel}

\* more blocks than colors although colors must not repeat across blocks
ManifestTooManyBlocks == [ManifestThreeLevels EXCEPT !.blocks = 3]

\* a difficulty level without ratios
ManifestEmptyLevel ==
    [ManifestScenario EXCEPT !.difficultyLevels[2].ratios = <<>>]

\* no 'constraints' key
ManifestNoConstraints ==
    [k \in DOMAIN ManifestOneLevel \ {"constraints"} |-> ManifestOneLevel[k]]

InvalidManifests == {ManifestTooManyBlocks, ManifestEmptyLevel, ManifestNoConstraints}

\* this.manifest before loadManifest has run
NoManifest == [loaded |-> FALSE]

HasManifest(t) == "shapes" \in DOMAIN t.manifest

\* Object.keys(manifest.difficultyLevels)
LevelNames(m) == [k \in 1..Len(m.difficultyLevels) |-> m.difficultyLevels[k].name]

HasLevel(m, d) == d \in Range(LevelNames(m))

\* manifest.difficultyLevels[d] || []
LevelRatios(m, d) ==
    IF HasLevel(m, d)
    THEN (CHOOSE e \in Range(m.difficultyLevels) : e.name = d).ratios
    ELSE <<>>

(***************************************************************************)
(* Bounds of the exploration.                                              *)
(***************************************************************************)
PidBelow == 1

MaxPid == 2

MaxCalls == 4

MaxCohort == 6

PIDs == (0 - PidBelow)..MaxPid

\* the participant IDs a cohort of consecutive participants may start at
CohortFirsts == (0 - PidBelow - 2)..MaxPid

ExperimentTypes == {"shapes", "colors", "discrimination"}

\* what parseInt(trialsInput.value, 10) can be: NaN (0 here) or a count
TrialsInputs == {0, 3}

Sessions == {1, 2}

\* the values the response buttons pass to handleTrialResponse
Responses == {"target", "foil"}

RenderOutcomes == {"called", "skipped", "fails"}

(***************************************************************************)
(* One TrialManager.  Besides the object's fields the record carries the   *)
(* position of startExperiment's run loop (experiment) and four            *)
(* observation fields: thrown (the error the last call ended with),        *)
(* handled (the number of handleTrialResponse calls), blockLog (the blocks *)
(* startBlock has set up, in order) and trialLog (the trials generateTrial *)
(* has produced, each with the number of blocks started before it).        *)
(***************************************************************************)
NoTrial == [generated |-> FALSE]

NoRng == <<>>

\* startExperiment has not been called: pc is the position of the run loop,
\* b its block counter, caught the errors its catch clauses only logged
NoExperiment == [pc |-> "idle", b |-> 0, caught |-> <<>>]

TrialManager(participantId) ==
    [participantId |-> participantId,
     manifest |-> NoManifest,
     rng |-> NoRng,
     experimentType |-> Undefined,
     blockDifficultyOrder |-> UndefinedArray,
     remainingColors |-> UndefinedArray,
     isPractice |-> FALSE,
     currentBlockIndex |-> 0,
     currentTrialIndex |-> 0,
     currentBlockDifficulty |-> Undefined,
     currentBlockColor |-> Undefined,
     currentTrial |-> NoTrial,
     trialData |-> <<>>,
     experiment |-> NoExperiment,
     thrown |-> "none",
     handled |-> 0,
     blockLog |-> <<>>,
     trialLog |-> <<>>]

(***************************************************************************)
(* Counterbalancing.                                                       *)
(***************************************************************************)
generateLatinSquare(levels) ==
    [i \in 1..Len(levels) |->
        SubSeq(levels, i, Len(levels)) \o SubSeq(levels, 1, i - 1)]

\* pid % n in JavaScript: the remainder has the sign of the dividend
JsRem(pid, n) == IF pid >= 0 THEN pid % n ELSE -((-pid) % n)

\* square[pid % square.length]; an index outside 0..N-1 reads undefined
assignCounterbalancing(m, pid) ==
    LET square == generateLatinSquare(LevelNames(m))
        idx == IF Len(square) = 0 THEN -1 ELSE JsRem(pid, Len(square))
    IN  IF idx >= 0 /\ idx < Len(square) THEN square[idx + 1] ELSE UndefinedArray

initializeColorPools(t) == [t EXCEPT !.remainingColors = t.manifest.colors]

(***************************************************************************)
(* The operations of one TrialManager, as functions from the object before *)
(* the call to the object after it.                                        *)
(***************************************************************************)
\* loadManifest()
loadManifest(t, file) == [t EXCEPT !.manifest = file, !.thrown = "none"]

\* this.rng = this.seededRandom(pid); this.assignCounterbalancing(pid)
Reseed(t, pid) ==
    [t EXCEPT !.rng = seededRandom(pid),
              !.blockDifficultyOrder = assignCounterbalancing(t.manifest, pid)]

\* init(); setupImages only fills the image cache, which no choice reads
init(t, file) ==
    initializeColorPools(Reseed(loadManifest(t, file), t.participantId))

\* okBtn.onclick of showInitialsDialog, for a numeric participant ID
showInitialsDialog(t, pidVal, type, tpbInput) ==
    LET tpb == IF tpbInput = 0 THEN t.manifest.trialsPerBlock ELSE tpbInput
        u   == [t EXCEPT !.participantId = pidVal,
                         !.experimentType = type,
                         !.manifest.trialsPerBlock = tpb,
                         !.thrown = "none"]
    IN  Reseed(u, pidVal)

\* const pickRandom = (arr) => arr[Math.floor(this.rng() * arr.length)]
pickRandom(seed, arr) ==
    The({[seed |-> r.seed, value |-> At(arr, FloorScale(r.u, Len(arr)))] :
         r \in {RngNext(seed)}})

\* while (x === first && arr.length > 1) x = pickRandom(arr)
RECURSIVE RepickWhileEqual(_, _, _, _)
RepickWhileEqual(seed, arr, first, x) ==
    IF x = first /\ Len(arr) > 1
    THEN The({RepickWhileEqual(p.seed, arr, first, p.value) :
              p \in {pickRandom(seed, arr)}})
    ELSE [seed |-> seed, value |-> x]

Stimulus(shape, color, ratio) == [shape |-> shape, color |-> color, ratio |-> ratio]

\* A trial object built with the first foil in the target's place
TrialFoilAsTarget(target, foil1, foil2, difficulty) ==
    [target |-> foil1, foils |-> <<target, foil2>>, difficulty |-> difficulty]

\* this.currentTrial = { target, foils: [foil1, foil2], difficulty }
Trial(target, foil1, foil2, difficulty) ==
    [target |-> target, foils |-> <<foil1, foil2>>, difficulty |-> difficulty]

\* The color startBlock takes from the pool: remainingColors.splice(idx, 1)[0]
\* with idx = Math.floor(this.rng() * this.remainingColors.length)
DrawColor(c, entry(_)) ==
    The({[c EXCEPT !.rng = r.seed,
                   !.currentBlockColor = At(c.remainingColors, r.idx),
                   !.remainingColors = SpliceOut(@, r.idx),
                   !.blockLog = Append(@, entry(At(c.remainingColors, r.idx)))] :
         r \in {The({[seed |-> n.seed, idx |-> FloorScale(n.u, Len(c.remainingColors))] :
                     n \in {RngNext(c.rng)}})}})

\* A practice block that takes its color out of the pool
RepeatColorTaken(b, color, logged) ==
    [b EXCEPT !.currentBlockColor = color,
              !.remainingColors = Without(@, color),
              !.blockLog = Append(@, logged)]

\* startBlock, practice with allowColorRepeat: this.currentBlockColor is
\* assigned, nothing else
RepeatColor(b, color, logged) ==
    [b EXCEPT !.currentBlockColor = color, !.blockLog = Append(@, logged)]

\* startBlock(blockIndex, practice); random is the index Math.random yields
startBlock(t, blockIndex, practice, random) ==
    LET a == [t EXCEPT !.isPractice = practice,
                       !.currentBlockIndex = blockIndex,
                       !.currentTrialIndex = 0,
                       !.thrown = "none"]
        difficulty == IF practice THEN "easy" ELSE At(t.blockDifficultyOrder, blockIndex)
        b == [a EXCEPT !.currentBlockDifficulty = difficulty]
        entry(color) == [blockIndex |-> blockIndex, practice |-> practice,
                         difficulty |-> difficulty, color |-> color]
    IN
    IF ~practice /\ t.blockDifficultyOrder = UndefinedArray
    THEN [a EXCEPT !.thrown = "TypeError"]
    ELSE IF practice /\ t.manifest.practice.allowColorRepeat
    THEN RepeatColor(b, At(t.manifest.colors, random),
                     entry(At(t.manifest.colors, random)))
    ELSE IF t.remainingColors # <<>>
    THEN DrawColor(b, entry)
    ELSE IF t.manifest.colors = <<>>
    THEN [initializeColorPools(b) EXCEPT !.thrown = "Color pool exhausted"]
    ELSE DrawColor(initializeColorPools(b), entry)

\* The foil colors of a 'shapes' trial, drawn after the shapes
ShapesFoilColors(seed, colors, targetColor) ==
    The({IF Len(otherColors) = 0
         THEN [seed |-> seed, c1 |-> targetColor, c2 |-> targetColor]
         ELSE IF Len(otherColors) = 1
         THEN [seed |-> seed, c1 |-> otherColors[1], c2 |-> otherColors[1]]
         ELSE The({The({[seed |-> p7.seed, c1 |-> p6.value, c2 |-> p7.value] :
                        p7 \in {pickRandom(p6.seed, Without(otherColors, p6.value))}}) :
                   p6 \in {pickRandom(seed, otherColors)}}) :
         otherColors \in {Without(colors, targetColor)}})

\* The foil shapes of a 'shapes' trial
ShapesFoilShapes(seed, types, targetShape) ==
    The({The({The({[seed |-> p5.seed, s1 |-> p3.value, s2 |-> p5.value] :
                   p5 \in {The({RepickWhileEqual(p4.seed, otherShapes, p3.value, p4.value) :
                                p4 \in {pickRandom(p3.seed, otherShapes)}})}}) :
              p3 \in {pickRandom(seed, otherShapes)}}) :
         otherShapes \in {Without(types, targetShape)}})

\* generateTrial(), experimentType === 'shapes'
ShapesTrial(t) ==
    The({The({The({The({
        [seed |-> fc.seed,
         trial |-> Trial(Stimulus(p1.value, p2.value, "1.00"),
                         Stimulus(fs.s1, fc.c1, "1.00"),
                         Stimulus(fs.s2, fc.c2, "1.00"),
                         t.currentBlockDifficulty)] :
        fc \in {ShapesFoilColors(fs.seed, t.manifest.colors, p2.value)}}) :
        fs \in {ShapesFoilShapes(p2.seed, t.manifest.shapes, p1.value)}}) :
        p2 \in {pickRandom(p1.seed, t.manifest.colors)}}) :
        p1 \in {pickRandom(t.rng, t.manifest.shapes)}})

\* The foil colors of a 'colors' trial
ColorsFoilColors(seed, colors, targetColor) ==
    The({The({The({[seed |-> p5.seed, c1 |-> p3.value, c2 |-> p5.value] :
                   p5 \in {The({RepickWhileEqual(p4.seed, otherColors, p3.value, p4.value) :
                                p4 \in {pickRandom(p3.seed, otherColors)}})}}) :
              p3 \in {pickRandom(seed, otherColors)}}) :
         otherColors \in {Without(colors, targetColor)}})

\* generateTrial(), experimentType === 'colors'
ColorsTrial(t) ==
    The({The({The({
        [seed |-> fc.seed,
         trial |-> Trial(Stimulus(p2.value, p1.value, "1.00"),
                         Stimulus(p2.value, fc.c1, "1.00"),
                         Stimulus(p2.value, fc.c2, "1.00"),
                         t.currentBlockDifficulty)] :
        fc \in {ColorsFoilColors(p2.seed, t.manifest.colors, p1.value)}}) :
        p2 \in {pickRandom(p1.seed, t.manifest.shapes)}}) :
        p1 \in {pickRandom(t.rng, t.manifest.colors)}})

\* allowedRatios[i] || fallback
RatioOr(allowedRatios, i, fallback) ==
    IF i < Len(allowedRatios) THEN allowedRatios[i + 1] ELSE fallback

\* generateTrial(), any other experimentType: ratio discrimination
DiscriminationTrial(t) ==
    The({The({The({
        [seed |-> p2.seed,
         trial |-> Trial(Stimulus(p1.value, p2.value, "1.00"),
                         Stimulus(p1.value, p2.value, RatioOr(allowedRatios, 0, "1.25")),
                         Stimulus(p1.value, p2.value, RatioOr(allowedRatios, 1, "1.50")),
                         t.currentBlockDifficulty)] :
        allowedRatios \in {LevelRatios(t.manifest, t.currentBlockDifficulty)}}) :
        p2 \in {pickRandom(p1.seed, t.manifest.colors)}}) :
        p1 \in {pickRandom(t.rng, t.manifest.shapes)}})

\* generateTrial(); attachImg and trialStart do not enter any choice
generateTrial(t) ==
    The({[t EXCEPT !.rng = g.seed,
                   !.currentTrial = g.trial,
                   !.thrown = "none",
                   !.trialLog = Append(@, [block |-> Len(t.blockLog), trial |-> g.trial])] :
         g \in {IF t.experimentType = "shapes" THEN ShapesTrial(t)
                ELSE IF t.experimentType = "colors" THEN ColorsTrial(t)
                ELSE DiscriminationTrial(t)}})

\* obj.key of a JavaScript object: undefined when the object has no such key
Prop(obj, key) == IF key \in DOMAIN obj THEN obj[key] ELSE Undefined

\* a log with one record replaced by another instead of appended
PushOverwriting(log, record) == <<record>>

\* this.trialData.push(record)
Push(log, record) == Append(log, record)

\* handleTrialResponse(response): const { target, foil, difficulty } =
\* this.currentTrial reads the key 'foil'; foil.ratio of undefined is a
\* TypeError raised while the record is built, before push and before
\* currentTrialIndex++.  rt is a clock reading and is kept abstract.
handleTrialResponse(t, response) ==
    LET h == [t EXCEPT !.handled = @ + 1, !.thrown = "none"] IN
    IF t.currentTrial = NoTrial THEN [h EXCEPT !.thrown = "TypeError"]
    ELSE The({
        IF foil = Undefined THEN [h EXCEPT !.thrown = "TypeError"]
        ELSE [h EXCEPT
                !.trialData =
                    Push(@, [participantId |-> t.participantId,
                             practice |-> t.isPractice,
                             blockIndex |-> t.currentBlockIndex,
                             trialIndex |-> t.currentTrialIndex,
                             shape |-> t.currentTrial.target.shape,
                             color |-> t.currentTrial.target.color,
                             difficulty |-> t.currentTrial.difficulty,
                             foilRatio |-> foil.ratio,
                             response |-> response,
                             correct |-> (response = "target"),
                             rt |-> "rt"]),
                !.currentTrialIndex = @ + 1] :
        foil \in {Prop(t.currentTrial, "foil")}})

\* [items[i], items[j]] = [items[j], items[i]], 0-based
Swap(items, i, j) ==
    [k \in 1..Len(items) |->
        IF k = i + 1 THEN items[j + 1] ELSE IF k = j + 1 THEN items[i + 1] ELSE items[k]]

\* The shuffle of renderTrial: for i = 2, 1: j = Math.floor(this.rng() * (i + 1))
Shuffle3(seed, items) ==
    The({The({[seed |-> r1.seed,
               items |-> Swap(Swap(items, 2, FloorScale(r2.u, 3)), 1, FloorScale(r1.u, 2))] :
              r1 \in {RngNext(r2.seed)}}) :
         r2 \in {RngNext(seed)}})

\* img.id = `obj-${block}-${trial}-${idx}`: the part that says the position
ImageIds == <<"obj-0", "obj-1", "obj-2">>

\* items.forEach((it, idx) => ... else ids.foilIds.push(id))
FoilIds(items) ==
    LET at == {k \in 1..3 : items[k] = "foil"}
        lo == CHOOSE k \in at : \A j \in at : k <= j
        hi == CHOOSE k \in at : \A j \in at : k >= j
    IN  <<ImageIds[lo], ImageIds[hi]>>

\* renderTrial(container): throws when the container is not in the page,
\* else shuffles target and foils with this.rng and stores the image ids
\* (obj-<block>-<trial>-<position>) with the trial
renderTrial(t, containerFound) ==
    IF ~containerFound
    THEN [t EXCEPT !.thrown = "Container not found for renderTrial"]
    ELSE The({
        [t EXCEPT !.rng = sh.seed,
                  !.thrown = "none",
                  !.currentTrial =
                      [target |-> t.currentTrial.target,
                       foils |-> t.currentTrial.foils,
                       difficulty |-> t.currentTrial.difficulty,
                       ids |-> [targetId |-> ImageIds[CHOOSE k \in 1..3 : sh.items[k] = "target"],
                                foilIds |-> FoilIds(sh.items)]]] :
        sh \in {Shuffle3(t.rng, <<"target", "foil", "foil">>)}})

\* try { this.renderTrial(...) } catch (err) { console.error(...) }
RenderCaught(t, containerFound) ==
    The({IF r.thrown = "none" THEN r
         ELSE [t EXCEPT !.experiment.caught = Append(@, r.thrown)] :
         r \in {renderTrial(t, containerFound)}})

\* try { await this.showCenterPresentation(...) } catch (e) { console.warn(...) }
CenterCaught(t, containerFound) ==
    IF containerFound THEN t
    ELSE [t EXCEPT !.experiment.caught =
                       Append(@, "Container not found for center presentation")]

\* startExperiment: const isPracticeMode = this.experimentType === 'practice'
\* && this.manifest.practice && this.manifest.practice.enabled
IsPracticeMode(t) == t.experimentType = "practice" /\ t.manifest.practice.enabled

TotalBlocks(t) ==
    IF IsPracticeMode(t) THEN t.manifest.practice.blocks ELSE t.manifest.blocks

TrialsPerBlock(t) ==
    IF IsPracticeMode(t) THEN t.manifest.practice.trialsPerBlock
    ELSE t.manifest.trialsPerBlock

\* startExperiment up to its block loop, run without WebGazer: the color
\* pool is initialised when remainingColors is not an array
ExperimentBegin(t) ==
    LET u == IF t.remainingColors = UndefinedArray THEN initializeColorPools(t) ELSE t
    IN  [u EXCEPT !.experiment.pc = "block", !.experiment.b = 0, !.thrown = "none"]

\* startExperiment, head of the block loop: for (b...; b < totalBlocks; ...)
\* this.startBlock(b, isPracticeMode).  An exception of startBlock is not
\* caught: it rejects the promise startExperiment returned.
ExperimentBlock(t, random) ==
    IF t.experiment.b >= TotalBlocks(t)
    THEN [t EXCEPT !.experiment.pc = "complete"]
    ELSE The({
        IF sb.thrown # "none" THEN [sb EXCEPT !.experiment.pc = "rejected"]
        ELSE IF sb.currentTrialIndex < TrialsPerBlock(sb)
        THEN [sb EXCEPT !.experiment.pc = "trial"]
        ELSE [sb EXCEPT !.experiment.b = @ + 1] :
        sb \in {startBlock(t, t.experiment.b, IsPracticeMode(t), random)}})

\* the record startExperiment stores after the choices were shown
ExperimentRecord(t) ==
    [participantId |-> t.participantId,
     practice |-> t.isPractice,
     blockIndex |-> t.currentBlockIndex,
     trialIndex |-> t.currentTrialIndex,
     shape |-> t.currentTrial.target.shape,
     color |-> t.currentTrial.target.color,
     difficulty |-> t.currentTrial.difficulty,
     targetId |-> IF "ids" \in DOMAIN t.currentTrial
                  THEN t.currentTrial.ids.targetId ELSE Undefined,
     foilIds |-> IF "ids" \in DOMAIN t.currentTrial
                 THEN t.currentTrial.ids.foilIds ELSE UndefinedArray,
     positions |-> IF "ids" \in DOMAIN t.currentTrial THEN "positions" ELSE Undefined,
     foilRatios |-> <<t.currentTrial.foils[1].ratio, t.currentTrial.foils[2].ratio>>,
     samples |-> "samples"]

\* A trial loop that ends one trial early
ExperimentAdvanceEarly(t) ==
    IF t.currentTrialIndex + 1 < TrialsPerBlock(t) THEN t
    ELSE [t EXCEPT !.experiment.pc = "block", !.experiment.b = @ + 1]

\* the trial loop's condition, and the block loop's b++ when it ends
ExperimentAdvance(t) ==
    IF t.currentTrialIndex < TrialsPerBlock(t) THEN t
    ELSE [t EXCEPT !.experiment.pc = "block", !.experiment.b = @ + 1]

\* startExperiment, one pass of the trial loop: generateTrial (an error is
\* logged and ends the block), the center presentation and renderTrial (an
\* error is logged), gaze recording, trialData.push, currentTrialIndex++
ExperimentTrial(t, containerFound) ==
    The({
        IF g.thrown # "none"
        THEN [g EXCEPT !.experiment.caught = Append(@, g.thrown),
                       !.experiment.pc = "block",
                       !.experiment.b = @ + 1,
                       !.thrown = "none"]
        ELSE The({
            ExperimentAdvance(
                [r EXCEPT !.trialData = Push(@, ExperimentRecord(r)),
                          !.currentTrialIndex = @ + 1]) :
            r \in {RenderCaught(CenterCaught(g, containerFound), containerFound)}}) :
        g \in {generateTrial(t)}})

(***************************************************************************)
(* exportCSV.  A text is the sequence of its tokens: a token is a comma,   *)
(* a line feed, or a run of characters holding neither.                    *)
(***************************************************************************)
Comma == ","

LineFeed == "\n"

\* Object.keys(record): the keys in the order of the object literal that
\* built the record, in startExperiment or in handleTrialResponse
ExperimentRecordKeys ==
    <<"participantId", "practice", "blockIndex", "trialIndex", "shape", "color",
      "difficulty", "targetId", "foilIds", "positions", "foilRatios", "samples">>

ResponseRecordKeys ==
    <<"participantId", "practice", "blockIndex", "trialIndex", "shape", "color",
      "difficulty", "foilRatio", "response", "correct", "rt">>

ObjectKeys(record) ==
    IF "samples" \in DOMAIN record THEN ExperimentRecordKeys ELSE ResponseRecordKeys

\* texts.join(separator)
RECURSIVE Join(_, _)
Join(texts, separator) ==
    IF texts = <<>> THEN <<>>
    ELSE IF Len(texts) = 1 THEN texts[1]
    ELSE texts[1] \o <<separator>> \o Join(Tail(texts), separator)

\* What join makes of record[h]: '' for undefined and null, the elements
\* joined by commas for an array, '[object Object]' for an object, String(v)
\* otherwise.  positions is an object when set; of the gaze samples, an
\* array of objects, the first is kept.
CellText(record, h) ==
    IF h \notin DOMAIN record THEN <<>>
    ELSE IF h \in {"participantId", "blockIndex", "trialIndex"}
    THEN <<ToString(record[h])>>
    ELSE IF h \in {"practice", "correct"}
    THEN <<IF record[h] THEN "true" ELSE "false">>
    ELSE IF h \in {"foilIds", "foilRatios"}
    THEN Join([k \in 1..Len(record[h]) |-> <<record[h][k]>>], Comma)
    ELSE IF record[h] = Undefined THEN <<>>
    ELSE IF h \in {"positions", "samples"} THEN <<"[object Object]">>
    ELSE <<record[h]>>

\* exportCSV()
exportCSV(trialData) ==
    IF trialData = <<>> THEN <<>>
    ELSE LET headers == ObjectKeys(trialData[1])
             row(r) == Join([c \in 1..Len(headers) |-> CellText(r, headers[c])], Comma)
             rows == <<Join([c \in 1..Len(headers) |-> <<headers[c]>>], Comma)>>
                     \o [k \in 1..Len(trialData) |-> row(trialData[k])]
         IN  Join(rows, LineFeed)

(***************************************************************************)
(* The legacy object paradigm (the TrialManager of trialManager.js): a     *)
(* sample object is shown, then the same object among two distractors.     *)
(* Objects are numbered 1..totalImages.  The class defines                 *)
(* getRandomObjectNumber twice; the later definition, the one that retries,*)
(* is the method of the class.                                             *)
(***************************************************************************)
\* JavaScript values whose type matters to ===: the string and the number
\* written with the same digits are different values
Str(text) == <<"string", text>>

Num(text) == <<"number", text>>

\* this.trialTypes = ["1", "2"]
trialTypes == <<Str("1"), Str("2")>>

\* const maxAttempts = 100
maxAttempts == 100

\* the number of images of the test type (imageCounts), scaled down
MaxImages == 3

\* the number of trials chosen in the dialog, scaled down
MaxTrials == 2

\* exclude.includes(objectNum)
Includes(exclude, objectNum) == objectNum \in Range(exclude)

\* No getRandomObjectNumber call has been made.  In a call, objectNum 0 is
\* the declared and not yet assigned objectNum, warned says whether
\* console.warn('Max attempts reached ...') was called.
NoCall == [pc |-> "none", exclude |-> <<>>, attempts |-> 0, objectNum |-> 0,
           warned |-> FALSE]

\* getRandomObjectNumber(exclude) up to its loop: attempts = 0; let objectNum
getRandomObjectNumber(exclude) ==
    [pc |-> "loop", exclude |-> exclude, attempts |-> 0, objectNum |-> 0,
     warned |-> FALSE]

\* A limit that lets one more pass through
MaxAttemptsReachedLate(attempts) == attempts > maxAttempts + 1

\* if (attempts > maxAttempts)
MaxAttemptsReached(attempts) == attempts > maxAttempts

\* One pass of the do ... while of getRandomObjectNumber; objectNum is what
\* Math.floor(Math.random() * this.totalImages) + 1 yields in this pass.
\* The call returns objectNum after the break and when the while test fails.
RetryPass(call, objectNum) ==
    LET drawn == [call EXCEPT !.objectNum = objectNum, !.attempts = @ + 1]
    IN  IF MaxAttemptsReached(drawn.attempts)
        THEN [drawn EXCEPT !.warned = TRUE, !.pc = "returned"]
        ELSE IF Includes(call.exclude, objectNum)
        THEN drawn
        ELSE [drawn EXCEPT !.pc = "returned"]

NoLegacyTrial == [type |-> Str(""), object1 |-> 0, object2 |-> 0, excludeList |-> <<>>]

\* new TrialManager() of the legacy paradigm; pc is the position of the
\* experiment, trial the local variables of the runTrial call under way,
\* call the getRandomObjectNumber call under way. Arrays of gaze samples are
\* objects shared by reference: gazeArrays holds the arrays created so far,
\* and currentGazeData and the gazeData of a trial record are indexes into
\* it. startTime is currentTrialData.startTime, 0 while it is undefined.
\* currentPointIndex and calibrationPoint are the closure of
\* startCalibrationPhase: the index of the point on the page and whether a
\* point with its click listener is there; recorded lists the points passed
\* to webgazer.recordScreenPosition; calls lists the calls of
\* startCalibrationPhase and startExperiment made from outside the class.
LegacyTrialManager ==
    [totalImages |-> 0,
     trialCount |-> 0,
     exclusions |-> <<>>,
     calibrationComplete |-> FALSE,
     calibrationInProgress |-> FALSE,
     currentPointIndex |-> 0,
     calibrationPoint |-> FALSE,
     recorded |-> <<>>,
     calls |-> <<>>,
     startTime |-> 0,
     gazeArrays |-> << <<>> >>,
     currentGazeData |-> 1,
     allGazeData |-> <<>>,
     currentTrial |-> 0,
     trialData |-> <<>>,
     pc |-> "dialog",
     i |-> 0,
     trial |-> NoLegacyTrial,
     call |-> NoCall]

\* getExcludedObjects(objectNum)
getExcludedObjects(l, objectNum) ==
    IF objectNum \in DOMAIN l.exclusions
    THEN SelectSeq(l.exclusions[objectNum], LAMBDA num : num <= l.totalImages)
    ELSE <<>>

\* button.onclick of the legacy showInitialsDialog: the trial count, the
\* exclusions of the test type and, in setupImages, its number of images
LegacySetup(l, exclusions) ==
    [l EXCEPT !.trialCount = MaxTrials,
              !.exclusions = exclusions,
              !.totalImages = MaxImages,
              !.pc = "calibration"]

\* startExperiment() without its test of calibrationComplete
LegacyStartExperimentUnguarded(l) ==
    [l EXCEPT !.i = 0, !.pc = IF 0 < l.trialCount THEN "trials" ELSE "complete"]

\* startExperiment() of the legacy paradigm, up to the first runTrial
LegacyStartExperiment(l) ==
    IF ~l.calibrationComplete THEN l
    ELSE [l EXCEPT !.i = 0, !.pc = IF 0 < l.trialCount THEN "trials" ELSE "complete"]

\* the end of startCalibrationPhase:
\* this.calibrationComplete = true; this.startExperiment()
LegacyCalibrated(l) ==
    LegacyStartExperiment([l EXCEPT !.calibrationComplete = TRUE])

\* runTrial(this.trialTypes[i % this.trialTypes.length]) up to its first
\* getRandomObjectNumber call; object1Num is the sample drawn by Math.random
LegacyRunTrial(l, object1Num) ==
    LET excludeList == getExcludedObjects(l, object1Num) \o <<object1Num>>
    IN  [l EXCEPT !.trial = [type |-> trialTypes[(l.i % Len(trialTypes)) + 1],
                             object1 |-> object1Num,
                             object2 |-> 0,
                             excludeList |-> excludeList],
                  !.call = getRandomObjectNumber(excludeList),
                  !.pc = "object2"]

TestObject(num, isTarget) == [num |-> num, isTarget |-> isTarget]

\* shuffleArray(array) for three elements: for i = 2, 1 the element at i is
\* swapped with the one at j = Math.floor(Math.random() * (i + 1))
shuffleArray(array, j2, j1) == Swap(Swap(array, 2, j2), 1, j1)

\* The rest of runTrial once the test objects are chosen: the shuffle, the
\* record pushed to trialData, currentTrial++, and the next pass of the loop
\* of startExperiment
LegacyFinishTrial(l, testObjects, j2, j1) ==
    LET shuffled == shuffleArray(testObjects, j2, j1)
        record == [trialNumber |-> l.currentTrial + 1,
                   type |-> l.trial.type,
                   object1 |-> l.trial.object1,
                   testObjects |-> [k \in 1..3 |-> shuffled[k].num],
                   positions |-> shuffled]
    IN  [l EXCEPT !.trialData = Append(@, record),
                  !.currentTrial = @ + 1,
                  !.i = @ + 1,
                  !.trial = NoLegacyTrial,
                  !.call = NoCall,
                  !.pc = IF l.i + 1 < l.trialCount THEN "trials" ELSE "complete"]

\* runTrial from the return of a getRandomObjectNumber call on
LegacyChosen(l, j2, j1) ==
    IF l.pc = "object2"
    THEN IF l.trial.type = Num("1")
         THEN LegacyFinishTrial(l, <<TestObject(l.trial.object1, TRUE),
                                     TestObject(l.call.objectNum, FALSE),
                                     TestObject(l.call.objectNum, FALSE)>>, j2, j1)
         ELSE [l EXCEPT !.trial.object2 = l.call.objectNum,
                        !.call = getRandomObjectNumber(
                                    l.trial.excludeList \o <<l.call.objectNum>>),
                        !.pc = "object3"]
    ELSE LegacyFinishTrial(l, <<TestObject(l.trial.object1, TRUE),
                                TestObject(l.trial.object2, FALSE),
                                TestObject(l.call.objectNum, FALSE)>>, j2, j1)

(***************************************************************************)
(* The objects the sessions refer to.  The arrays, the manifest and the    *)
(* generator's closure of a TrialManager are objects of the heap: cells is *)
(* the heap, handle[s][f] the cell field f of session s refers to, 0 when  *)
(* the field is undefined.  An assignment of a new object to a field       *)
(* takes a new cell; splice, push, a call of the generator and an          *)
(* assignment to a property of the manifest write to the cell referred to. *)
(***************************************************************************)
HeapFields == <<"manifest", "rng", "blockDifficultyOrder", "remainingColors", "trialData">>

\* One array for every session
TrialDataCellShared(s) == 1

\* this.trialData = [] in the constructor: an array of the session's own
TrialDataCell(s) == s

\* the heap after new TrialManager(...) for each session
ConstructedObjects ==
    [cells |-> [a \in Sessions |-> <<>>],
     handle |-> [s \in Sessions |->
                   [manifest |-> 0, rng |-> 0, blockDifficultyOrder |-> 0,
                    remainingColors |-> 0, trialData |-> TrialDataCell(s)]]]

\* the TrialManager t of session s with its fields read through the heap
SessionView(obj, t, s) ==
    [f \in DOMAIN t |->
        IF f \in Range(HeapFields) /\ obj.handle[s][f] # 0
        THEN obj.cells[obj.handle[s][f]] ELSE t[f]]

\* The heap after a call that left session s as u: the fields in fresh were
\* assigned new objects, the others were written where they are
RECURSIVE Store(_, _, _, _, _)
Store(obj, s, u, fresh, fields) ==
    IF fields = <<>> THEN obj
    ELSE LET f == Head(fields)
             a == obj.handle[s][f]
             next == IF f \in fresh
                     THEN [cells |-> Append(obj.cells, u[f]),
                           handle |-> [obj.handle EXCEPT ![s][f] = Len(obj.cells) + 1]]
                     ELSE IF a = 0 THEN obj
                     ELSE [obj EXCEPT !.cells[a] = u[f]]
         IN  Store(next, s, u, fresh, Tail(fields))

\* startBlock line 785: the pool is filled anew, with a copy of
\* manifest.colors, when the block takes its color from an empty pool
RefillsPool(t, practice) ==
    /\ ~(practice /\ t.manifest.practice.allowColorRepeat)
    /\ practice \/ t.blockDifficultyOrder # UndefinedArray
    /\ t.remainingColors = <<>>

(***************************************************************************)
(* The generators seededRandom returns.  Each call of seededRandom makes a *)
(* closure over its own parameter seed, which the calls of the generator   *)
(* update: closures holds the captured variables, made the generators in   *)
(* the order they were made, each with the seed it was made from, the      *)
(* closure it refers to and the numerators of the numbers it has yielded.  *)
(***************************************************************************)
NoGenerators == [closures |-> <<>>, made |-> <<>>]

\* One captured variable for every generator
SharedClosure(closures) == 1

\* return function() { ... seed ... }: the variable the new closure captures
NewClosure(closures) == Len(closures) + 1

\* const rng = seededRandom(seed)
MakeGenerator(g, seed) ==
    [closures |-> Append(g.closures, seededRandom(seed)),
     made |-> Append(g.made, [seed |-> seed, closure |-> NewClosure(g.closures),
                              outputs |-> <<>>])]

\* rng(), for the n-th generator made
CallGenerator(g, n) ==
    The({[closures |-> [g.closures EXCEPT ![g.made[n].closure] = r.seed],
          made |-> [g.made EXCEPT ![n].outputs = Append(@, r.u)]] :
         r \in {RngNext(g.closures[g.made[n].closure])}})

(***************************************************************************)
(* The persistence endpoint of server.js.  A request has a JSON body or    *)
(* none: body is <<>> or holds the document; fsOk says whether the file    *)
(* system accepts the write.  files are the documents written, in order.   *)
(***************************************************************************)
ServerStarted == [files |-> <<>>, request |-> <<>>, status |-> 0]

\* !data.participantId: the key is absent or its value is falsy; of the
\* integers 0 is falsy
NoParticipantId(data) == "participantId" \notin DOMAIN data \/ data.participantId = 0

\* app.post('/api/save-experiment-data', ...)
saveExperimentData(srv, body, fsOk) ==
    IF body = <<>> \/ NoParticipantId(body[1])
    THEN [srv EXCEPT !.request = body, !.status = 400]
    ELSE IF ~fsOk
    THEN [srv EXCEPT !.request = body, !.status = 500]
    ELSE [files |-> Append(srv.files, body[1]), request |-> body, status |-> 201]

(***************************************************************************)
(* The browser page.  experimentInitiated is the flag of the keydown       *)
(* listener initializeExperiment installs, keydowns the number of keydown  *)
(* events it has received and runs the handler runs it has started, each   *)
(* with the await it is at and the two tasks of its Promise.all;           *)
(* calibration is the screen of startCalibrationPhase; container           *)
(* tells whether the page has the #test-container element; rests counts   *)
(* the rest intervals that have elapsed; storage is what localforage       *)
(* holds, downloads the files offered for download, posts the documents    *)
(* sent to the server, alerts the number of alert() boxes shown.           *)
(***************************************************************************)
\* The calibration screen before startCalibrationPhase: currentPoint is the
\* index of the calibration point, timers the pending showCalibrationPoint
\* timers, dots the dots created so far (present while in the document),
\* handlers the click handlers started so far with the number i of samples
\* each has recorded, validations the validateCalibration calls in progress,
\* resolveCalls the calls of the promise's resolve, errors the exceptions
\* thrown in timer callbacks
NoCalibration ==
    [pc |-> "idle", currentPoint |-> 0, timers |-> 0, dots |-> <<>>,
     handlers |-> <<>>, validations |-> 0, resolved |-> FALSE,
     resolveCalls |-> 0, errors |-> 0]

PageLoaded ==
    [experimentInitiated |-> FALSE,
     keydowns |-> 0,
     runs |-> <<>>,
     calibration |-> NoCalibration,
     container |-> TRUE,
     rests |-> 0,
     storage |-> <<>>,
     downloads |-> <<>>,
     posts |-> <<>>,
     alerts |-> 0,
     completionShown |-> FALSE]

(***************************************************************************)
(* The state: the TrialManager objects, the trial_manifest.json they       *)
(* fetch, and the block orders assigned to a cohort of participants with   *)
(* consecutive IDs cohortFirst, cohortFirst + 1, ...; legacy is the        *)
(* TrialManager of the legacy object paradigm; objects is the heap;        *)
(* generators holds the generators seededRandom has returned and the       *)
(* numbers they have yielded; server is the persistence endpoint; page is  *)
(* the browser page: its keydown listener, its calibration screen, its     *)
(* local storage and its downloads.                                        *)
(***************************************************************************)
VARIABLES tm, manifestFile, cohortFirst, cohortOrders, legacy, objects, generators, server,
          page

vars == <<tm, manifestFile, cohortFirst, cohortOrders, legacy, objects, generators, server, page>>

\* new TrialManager(participantId), for each session
Init ==
    /\ manifestFile \in Manifests
    /\ \E pid \in PIDs : tm = [s \in Sessions |-> TrialManager(pid)]
    /\ cohortFirst = 0
    /\ cohortOrders = <<>>
    /\ legacy = LegacyTrialManager
    /\ objects = ConstructedObjects
    /\ generators = NoGenerators
    /\ server = ServerStarted
    /\ page = PageLoaded

\* init() or the dialog has seeded the generator
Ready(t) == HasManifest(t) /\ t.rng # NoRng

\* A call that throws ends the run of its session; the runs explored make
\* at most MaxCalls calls of startBlock and generateTrial.
CanCall(t) ==
    /\ Ready(t)
    /\ t.thrown = "none"
    /\ t.experiment.pc = "idle"
    /\ Len(t.blockLog) + Len(t.trialLog) < MaxCalls

\* Blocks are numbered as startExperiment numbers them: 0, 1, 2, ... among
\* the blocks of their kind.
NextBlockIndex(t, practice) ==
    Cardinality({k \in 1..Len(t.blockLog) : t.blockLog[k].practice = practice})

RandomIndexes == 0..(Len(manifestFile.colors) - 1)

\* The sessions of D make the same call; the others are left alone.
Apply(D, op(_, _)) ==
    /\ tm' = [s \in Sessions |-> IF s \in D THEN op(s, tm[s]) ELSE tm[s]]
    /\ UNCHANGED <<manifestFile, cohortFirst, cohortOrders, legacy, objects, generators, server, page>>

\* await tm.init()
InitOn(D) ==
    /\ \A s \in D : ~HasManifest(tm[s])
    /\ LET op(s, t) == init(t, manifestFile) IN Apply(D, op)

\* const trialManager = new TrialManager(); await trialManager.loadManifest()
LoadManifestOn(D) ==
    /\ \A s \in D : ~HasManifest(tm[s]) /\ tm[s].participantId = 0
    /\ LET op(s, t) == loadManifest(t, manifestFile) IN Apply(D, op)

\* initializeExperiment shows the dialog once, after the manifest is loaded;
\* the participant fills it in and presses Start
ShowInitialsDialogOn(D) ==
    /\ \A s \in D : HasManifest(tm[s]) /\ tm[s].rng = NoRng
    /\ \E pidVal \in PIDs, type \in ExperimentTypes, tpb \in TrialsInputs :
          LET op(s, t) == showInitialsDialog(t, pidVal, type, tpb) IN Apply(D, op)

\* startBlock(b, practice); each session's Math.random is its own
StartBlockOn(D) ==
    /\ \A s \in D : CanCall(tm[s])
    /\ \E practice \in BOOLEAN, random \in [D -> RandomIndexes] :
          LET op(s, t) == startBlock(t, NextBlockIndex(t, practice), practice, random[s])
          IN  Apply(D, op)

GenerateTrialOn(D) ==
    /\ \A s \in D : CanCall(tm[s])
    /\ LET op(s, t) == generateTrial(t) IN Apply(D, op)

\* a click on a response button: handleTrialResponse('target' | 'foil')
HandleTrialResponseOn(D) ==
    /\ \A s \in D : Ready(tm[s]) /\ tm[s].thrown = "none" /\ tm[s].experiment.pc = "idle"
    /\ \E response \in Responses :
          LET op(s, t) == handleTrialResponse(t, response) IN Apply(D, op)

\* initializeExperiment calls startExperiment once, on a session that has
\* not run a block yet
StartExperimentOn(D) ==
    /\ \A s \in D : /\ CanCall(tm[s])
                     /\ tm[s].blockLog = <<>> /\ tm[s].trialLog = <<>>
                     /\ tm[s].handled = 0
    /\ LET op(s, t) == ExperimentBegin(t) IN Apply(D, op)

RunBlockOn(D) ==
    /\ \A s \in D : tm[s].experiment.pc = "block"
    /\ \E random \in [D -> RandomIndexes] :
          LET op(s, t) == ExperimentBlock(t, random[s]) IN Apply(D, op)

\* one pass of the trial loop; the page has the #test-container or not
RunTrialOn(D) ==
    /\ \A s \in D : tm[s].experiment.pc = "trial"
    /\ \E containerFound \in BOOLEAN :
          LET op(s, t) == ExperimentTrial(t, containerFound) IN Apply(D, op)

\* Between two generateTrial calls each session's caller calls renderTrial,
\* skips it, or calls it and catches its error
RenderBetweenOn(D) ==
    /\ \A s \in D : /\ CanCall(tm[s])
                     /\ tm[s].currentTrial # NoTrial
                     /\ "ids" \notin DOMAIN tm[s].currentTrial
    /\ \E outcome \in [D -> RenderOutcomes] :
          LET op(s, t) == IF outcome[s] = "skipped" THEN t
                          ELSE IF outcome[s] = "called" THEN renderTrial(t, TRUE)
                          ELSE [renderTrial(t, FALSE) EXCEPT !.thrown = "none"]
          IN  Apply(D, op)

(***************************************************************************)
(* Spec: one session is driven through any sequence of calls; the other    *)
(* stays as constructed.                                                   *)
(***************************************************************************)
Driven == {1}

InitSession == InitOn(Driven)

LoadManifest == LoadManifestOn(Driven)

ShowInitialsDialog == ShowInitialsDialogOn(Driven)

StartBlock == StartBlockOn(Driven)

GenerateTrial == GenerateTrialOn(Driven)

HandleTrialResponse == HandleTrialResponseOn(Driven)

StartExperiment == StartExperimentOn(Driven)

RunBlock == RunBlockOn(Driven)

RunTrial == RunTrialOn(Driven)

Next ==
    \/ InitSession
    \/ LoadManifest
    \/ ShowInitialsDialog
    \/ StartBlock
    \/ GenerateTrial
    \/ HandleTrialResponse
    \/ StartExperiment
    \/ RunBlock
    \/ RunTrial

Spec == Init /\ [][Next]_vars

(***************************************************************************)
(* SpecReplay: two sessions constructed with the same participantId and    *)
(* fetching the same manifest receive the same sequence of calls.          *)
(***************************************************************************)
ReplayInitSession == InitOn(Sessions)

ReplayLoadManifest == LoadManifestOn(Sessions)

ReplayShowInitialsDialog == ShowInitialsDialogOn(Sessions)

ReplayStartBlock == StartBlockOn(Sessions)

ReplayGenerateTrial == GenerateTrialOn(Sessions)

NextReplay ==
    \/ ReplayInitSession
    \/ ReplayLoadManifest
    \/ ReplayShowInitialsDialog
    \/ ReplayStartBlock
    \/ ReplayGenerateTrial

SpecReplay == Init /\ [][NextReplay]_vars

(***************************************************************************)
(* SpecRender: two sessions with the same participantId and manifest       *)
(* receive the same init, startBlock and generateTrial calls, and differ   *)
(* only in what the renderer does between them.                            *)
(***************************************************************************)
RenderBetween == RenderBetweenOn(Sessions)

NextRender ==
    \/ ReplayInitSession
    \/ ReplayStartBlock
    \/ ReplayGenerateTrial
    \/ RenderBetween

SpecRender == Init /\ [][NextRender]_vars

(***************************************************************************)
(* SpecAnyManifest: as Spec, for any trial_manifest.json the server may    *)
(* hold, well-formed or not.                                               *)
(***************************************************************************)
InitAnyManifest ==
    /\ manifestFile \in Manifests \cup InvalidManifests
    /\ \E pid \in PIDs : tm = [s \in Sessions |-> TrialManager(pid)]
    /\ cohortFirst = 0
    /\ cohortOrders = <<>>
    /\ legacy = LegacyTrialManager
    /\ objects = ConstructedObjects
    /\ generators = NoGenerators
    /\ server = ServerStarted
    /\ page = PageLoaded

SpecAnyManifest == InitAnyManifest /\ [][Next]_vars

(***************************************************************************)
(* SpecCohort: participants with consecutive IDs, starting anywhere, each  *)
(* construct and init() a TrialManager on the same manifest; the block     *)
(* order assigned to each is recorded.                                     *)
(***************************************************************************)
InitCohort ==
    /\ manifestFile \in Manifests
    /\ tm = [s \in Sessions |-> TrialManager(0)]
    /\ cohortFirst \in CohortFirsts
    /\ cohortOrders = <<>>
    /\ legacy = LegacyTrialManager
    /\ objects = ConstructedObjects
    /\ generators = NoGenerators
    /\ server = ServerStarted
    /\ page = PageLoaded

AssignParticipant ==
    /\ Len(cohortOrders) < MaxCohort
    /\ cohortOrders' =
          Append(cohortOrders,
                 init(TrialManager(cohortFirst + Len(cohortOrders)),
                      manifestFile).blockDifficultyOrder)
    /\ UNCHANGED <<tm, manifestFile, cohortFirst, legacy, objects, generators, server, page>>

NextCohort == AssignParticipant

SpecCohort == InitCohort /\ [][NextCohort]_vars

(***************************************************************************)
(* SpecLegacy: one session of the legacy paradigm, from the dialog to the  *)
(* end of startExperiment.                                                 *)
(***************************************************************************)
\* objectExclusions.js: no exclusions, or objects 1 and 2 exclude each other
ExclusionTables ==
    {[o \in 1..MaxImages |-> <<>>],
     [o \in 1..MaxImages |-> IF o = 1 THEN <<2>> ELSE IF o = 2 THEN <<1>> ELSE <<>>]}

InitLegacy ==
    /\ manifestFile \in {ManifestScenario}
    /\ tm = [s \in Sessions |-> TrialManager(0)]
    /\ cohortFirst = 0
    /\ cohortOrders = <<>>
    /\ legacy = LegacyTrialManager
    /\ objects = ConstructedObjects
    /\ generators = NoGenerators
    /\ server = ServerStarted
    /\ page = PageLoaded

LegacyDialog ==
    /\ legacy.pc = "dialog"
    /\ \E exclusions \in ExclusionTables : legacy' = LegacySetup(legacy, exclusions)
    /\ UNCHANGED <<tm, manifestFile, cohortFirst, cohortOrders, objects, generators, server, page>>

LegacyCalibration ==
    /\ legacy.pc = "calibration"
    /\ legacy' = LegacyCalibrated(legacy)
    /\ UNCHANGED <<tm, manifestFile, cohortFirst, cohortOrders, objects, generators, server, page>>

LegacyTrial ==
    /\ legacy.pc = "trials"
    /\ \E object1Num \in 1..legacy.totalImages :
          legacy' = LegacyRunTrial(legacy, object1Num)
    /\ UNCHANGED <<tm, manifestFile, cohortFirst, cohortOrders, objects, generators, server, page>>

\* one pass of the loop of the getRandomObjectNumber call under way
DrawObject ==
    /\ legacy.call.pc = "loop"
    /\ \E objectNum \in 1..legacy.totalImages :
          legacy' = [legacy EXCEPT !.call = RetryPass(@, objectNum)]
    /\ UNCHANGED <<tm, manifestFile, cohortFirst, cohortOrders, objects, generators, server, page>>

LegacyChoice ==
    /\ legacy.pc \in {"object2", "object3"}
    /\ legacy.call.pc = "returned"
    /\ \E j2 \in 0..2, j1 \in 0..1 : legacy' = LegacyChosen(legacy, j2, j1)
    /\ UNCHANGED <<tm, manifestFile, cohortFirst, cohortOrders, objects, generators, server, page>>

NextLegacy ==
    \/ LegacyDialog
    \/ LegacyCalibration
    \/ LegacyTrial
    \/ DrawObject
    \/ LegacyChoice

SpecLegacy == InitLegacy /\ [][NextLegacy]_vars

(***************************************************************************)
(* SpecObject: getRandomObjectNumber called on a TrialManager whose        *)
(* totalImages was set, with any exclusion list, as the unit tests call    *)
(* it.  SpecObjectFair: a call under way goes on (the loop is synchronous  *)
(* code).                                                                  *)
(***************************************************************************)
RECURSIVE Ascending(_)
Ascending(S) ==
    IF S = {} THEN <<>>
    ELSE LET least == CHOOSE x \in S : \A y \in S : x <= y
         IN  <<least>> \o Ascending(S \ {least})

\* the exclusion lists of the calls: such as [1, 2, 3] and [1, 2, 3, 4, 5]
ExcludeLists == {Ascending(S) : S \in SUBSET (1..MaxImages)}

InitObject ==
    /\ manifestFile \in {ManifestScenario}
    /\ tm = [s \in Sessions |-> TrialManager(0)]
    /\ cohortFirst = 0
    /\ cohortOrders = <<>>
    /\ \E totalImages \in 1..MaxImages :
          legacy = [LegacyTrialManager EXCEPT !.totalImages = totalImages]
    /\ objects = ConstructedObjects
    /\ generators = NoGenerators
    /\ server = ServerStarted
    /\ page = PageLoaded

CallObject ==
    /\ legacy.call.pc \in {"none", "returned"}
    /\ \E exclude \in ExcludeLists :
          legacy' = [legacy EXCEPT !.call = getRandomObjectNumber(exclude)]
    /\ UNCHANGED <<tm, manifestFile, cohortFirst, cohortOrders, objects, generators, server, page>>

NextObject ==
    \/ CallObject
    \/ DrawObject

SpecObject == InitObject /\ [][NextObject]_vars

SpecObjectFair == SpecObject /\ WF_vars(DrawObject)

(***************************************************************************)
(* SpecIsolation: two sessions, constructed for any two participants, are  *)
(* called in any interleaving; every call reads and writes the session's   *)
(* fields through the heap.                                                *)
(***************************************************************************)
\* the calls of startBlock and generateTrial explored for each session
MaxIsolatedCalls == 2

\* the trials per block the participant enters in the dialog
DialogTrials == 2

InitIsolation ==
    /\ manifestFile \in {ManifestScenario}
    /\ tm = [s \in Sessions |-> TrialManager(s - 1)]
    /\ cohortFirst = 0
    /\ cohortOrders = <<>>
    /\ legacy = LegacyTrialManager
    /\ objects = ConstructedObjects
    /\ generators = NoGenerators
    /\ server = ServerStarted
    /\ page = PageLoaded

View(s) == SessionView(objects, tm[s], s)

IsolatedCanCall(t) ==
    CanCall(t) /\ Len(t.blockLog) + Len(t.trialLog) < MaxIsolatedCalls

\* a call on session s that leaves it as u
Isolated(s, u, fresh) ==
    /\ tm' = [tm EXCEPT ![s] = u]
    /\ objects' = Store(objects, s, u, fresh, HeapFields)
    /\ UNCHANGED <<manifestFile, cohortFirst, cohortOrders, legacy, generators, server, page>>

IsolatedInit ==
    \E s \in Sessions : \E t \in {View(s)} :
        /\ ~HasManifest(t)
        /\ \E u \in {init(t, manifestFile)} :
              Isolated(s, u, {"manifest", "rng", "blockDifficultyOrder", "remainingColors"})

IsolatedLoadManifest ==
    \E s \in Sessions : \E t \in {View(s)} :
        /\ ~HasManifest(t) /\ t.participantId = 0
        /\ \E u \in {loadManifest(t, manifestFile)} : Isolated(s, u, {"manifest"})

\* the dialog reseeds the generator and reassigns the block order; it
\* writes trialsPerBlock to the session's manifest
IsolatedDialog ==
    \E s \in Sessions : \E t \in {View(s)} :
        /\ HasManifest(t) /\ t.rng = NoRng
        /\ \E u \in {showInitialsDialog(t, MaxPid, "discrimination", DialogTrials)} :
              Isolated(s, u, {"rng", "blockDifficultyOrder"})

IsolatedStartBlock ==
    \E s \in Sessions : \E t \in {View(s)} :
        /\ IsolatedCanCall(t)
        /\ \E practice \in BOOLEAN, random \in RandomIndexes :
              \E u \in {startBlock(t, NextBlockIndex(t, practice), practice, random)} :
                  Isolated(s, u, IF RefillsPool(t, practice)
                                 THEN {"remainingColors"} ELSE {})

IsolatedGenerateTrial ==
    \E s \in Sessions : \E t \in {View(s)} :
        /\ IsolatedCanCall(t)
        /\ \E u \in {generateTrial(t)} : Isolated(s, u, {})

IsolatedStartExperiment ==
    \E s \in Sessions : \E t \in {View(s)} :
        /\ CanCall(t)
        /\ t.blockLog = <<>> /\ t.trialLog = <<>>
        /\ \E u \in {ExperimentBegin(t)} :
              Isolated(s, u, IF t.remainingColors = UndefinedArray
                             THEN {"remainingColors"} ELSE {})

IsolatedRunBlock ==
    \E s \in Sessions : \E t \in {View(s)} :
        /\ t.experiment.pc = "block"
        /\ \E random \in RandomIndexes :
              \E u \in {ExperimentBlock(t, random)} :
                  Isolated(s, u, IF /\ t.experiment.b < TotalBlocks(t)
                                    /\ RefillsPool(t, IsPracticeMode(t))
                                 THEN {"remainingColors"} ELSE {})

\* a pass of the trial loop: generateTrial, renderTrial and the push of the
\* trial's record to trialData
IsolatedRunTrial ==
    \E s \in Sessions : \E t \in {View(s)} :
        /\ t.experiment.pc = "trial"
        /\ \E containerFound \in BOOLEAN :
              \E u \in {ExperimentTrial(t, containerFound)} : Isolated(s, u, {})

NextIsolation ==
    \/ IsolatedInit
    \/ IsolatedLoadManifest
    \/ IsolatedDialog
    \/ IsolatedStartBlock
    \/ IsolatedGenerateTrial
    \/ IsolatedStartExperiment
    \/ IsolatedRunBlock
    \/ IsolatedRunTrial

SpecIsolation == InitIsolation /\ [][NextIsolation]_vars

(***************************************************************************)
(* SpecGenerators: generators are made from any seeds and called in any    *)
(* interleaving.                                                           *)
(***************************************************************************)
MaxGenerators == 3

MaxOutputs == 2

GeneratorSeeds == {0 - PidBelow, 0, MaxPid}

InitGenerators ==
    /\ manifestFile \in {ManifestScenario}
    /\ tm = [s \in Sessions |-> TrialManager(0)]
    /\ cohortFirst = 0
    /\ cohortOrders = <<>>
    /\ legacy = LegacyTrialManager
    /\ objects = ConstructedObjects
    /\ generators = NoGenerators
    /\ server = ServerStarted
    /\ page = PageLoaded

SeededRandom ==
    /\ Len(generators.made) < MaxGenerators
    /\ \E seed \in GeneratorSeeds : generators' = MakeGenerator(generators, seed)
    /\ UNCHANGED <<tm, manifestFile, cohortFirst, cohortOrders, legacy, objects, server, page>>

CallRng ==
    /\ \E n \in 1..Len(generators.made) :
          /\ Len(generators.made[n].outputs) < MaxOutputs
          /\ generators' = CallGenerator(generators, n)
    /\ UNCHANGED <<tm, manifestFile, cohortFirst, cohortOrders, legacy, objects, server, page>>

NextGenerators ==
    \/ SeededRandom
    \/ CallRng

SpecGenerators == InitGenerators /\ [][NextGenerators]_vars

(***************************************************************************)
(* SpecServer: the endpoint receives any requests: the documents           *)
(* saveDataToServer posts, documents without participantId, no body.       *)
(***************************************************************************)
MaxFiles == 2

\* { participantId, experimentType, trialData, timestamp, totalTrials }; the
\* trial data are summed up by their number
Documents ==
    {[participantId |-> pid, totalTrials |-> n] : pid \in PIDs, n \in 0..MaxCalls}
        \cup {[totalTrials |-> n] : n \in 0..MaxCalls}

Bodies == {<<>>} \cup {<<data>> : data \in Documents}

InitServer ==
    /\ manifestFile \in {ManifestScenario}
    /\ tm = [s \in Sessions |-> TrialManager(0)]
    /\ cohortFirst = 0
    /\ cohortOrders = <<>>
    /\ legacy = LegacyTrialManager
    /\ objects = ConstructedObjects
    /\ generators = NoGenerators
    /\ server = ServerStarted
    /\ page = PageLoaded

PostExperimentData ==
    /\ Len(server.files) < MaxFiles
    /\ \E body \in Bodies, fsOk \in BOOLEAN :
          server' = saveExperimentData(server, body, fsOk)
    /\ UNCHANGED <<tm, manifestFile, cohortFirst, cohortOrders, legacy, objects, generators, page>>

NextServer == PostExperimentData

SpecServer == InitServer /\ [][NextServer]_vars

(***************************************************************************)
(* SpecRun: the run initializeExperiment starts on a keydown: the manifest *)
(* is loaded, the participant fills in the dialog, and startExperiment     *)
(* runs its blocks with the rest intervals between them and then saves the *)
(* data to local storage, as a download and on the server.                 *)
(***************************************************************************)
\* more blocks than difficulty levels; colors suffice for the blocks
ManifestFewLevels == [ManifestScenario EXCEPT !.blocks = 3]

RunManifests == Manifests \cup {ManifestFewLevels}

\* A rest interval after the last block too
RestDueAfterEveryBlock(t) == t.experiment.b < TotalBlocks(t)

\* end of block: if (b < totalBlocks - 1) await this.enforceRest()
RestDue(t) == t.experiment.b < TotalBlocks(t) - 1

\* A step of the run loop that ended block b goes on with the rest interval
\* when one is due, b++ following it
BlockEnd(before, after) ==
    IF /\ after.experiment.pc = "block"
       /\ after.experiment.b = before.experiment.b + 1
       /\ RestDue(before)
    THEN [after EXCEPT !.experiment.pc = "rest", !.experiment.b = before.experiment.b]
    ELSE after

\* enforceRest(): a promise that a timer resolves
enforceRest(t) == t

\* the rest interval is over: b++ and the head of the block loop
ExperimentRest(t) ==
    [enforceRest(t) EXCEPT !.experiment.pc = "block", !.experiment.b = @ + 1]

\* const experimentData = { participantId, experimentType, trialData,
\* timestamp, totalTrials }; the trial data are summed up by their number
experimentData(t) ==
    [participantId |-> t.participantId, totalTrials |-> Len(t.trialData)]

\* downloadTrialDataJSON(): the trial data as participant_<id>_trials.json
downloadTrialDataJSON(pg, t) ==
    [pg EXCEPT !.downloads =
                   Append(@, [participantId |-> t.participantId,
                              trials |-> Len(t.trialData)])]

\* startExperiment, completion: await localforage.setItem(...), then the
\* download and the request to the server; a rejection of setItem is caught
\* by the catch clause of the whole completion step
ExperimentStored(t, pg, stored) ==
    IF stored
    THEN [t |-> [t EXCEPT !.experiment.pc = "posting"],
          page |-> [downloadTrialDataJSON(pg, t) EXCEPT
                       !.storage = Append(@, experimentData(t)),
                       !.posts = Append(@, experimentData(t))]]
    ELSE [t |-> [t EXCEPT !.experiment.pc = "finished",
                          !.experiment.caught =
                              Append(@, "Error in experiment completion")],
          page |-> [pg EXCEPT !.alerts = @ + 1]]

\* saveDataToServer after fetch has settled: a failure is logged, never
\* thrown; showCompletionMessage follows
saveDataToServer(t, saved) ==
    [t EXCEPT !.experiment.pc = "finished",
              !.experiment.caught =
                  IF saved THEN @ ELSE Append(@, "Failed to save data to server")]

InitRun ==
    /\ manifestFile \in RunManifests
    /\ tm = [s \in Sessions |-> TrialManager(0)]
    /\ cohortFirst = 0
    /\ cohortOrders = <<>>
    /\ legacy = LegacyTrialManager
    /\ objects = ConstructedObjects
    /\ generators = NoGenerators
    /\ server = ServerStarted
    /\ \E container \in BOOLEAN : page = [PageLoaded EXCEPT !.container = container]

\* the head of the block loop
RunLoopBlock ==
    /\ tm[1].experiment.pc = "block"
    /\ \E random \in RandomIndexes :
          \E u \in {ExperimentBlock(tm[1], random)} :
             tm' = [tm EXCEPT ![1] = BlockEnd(tm[1], u)]
    /\ UNCHANGED <<manifestFile, cohortFirst, cohortOrders, legacy, objects, generators, server, page>>

\* one pass of the trial loop
RunLoopTrial ==
    /\ tm[1].experiment.pc = "trial"
    /\ \E u \in {ExperimentTrial(tm[1], page.container)} :
          tm' = [tm EXCEPT ![1] = BlockEnd(tm[1], u)]
    /\ UNCHANGED <<manifestFile, cohortFirst, cohortOrders, legacy, objects, generators, server, page>>

\* the timer of enforceRest fires
RunLoopRest ==
    /\ tm[1].experiment.pc = "rest"
    /\ tm' = [tm EXCEPT ![1] = ExperimentRest(tm[1])]
    /\ page' = [page EXCEPT !.rests = @ + 1]
    /\ UNCHANGED <<manifestFile, cohortFirst, cohortOrders, legacy, objects, generators, server>>

\* localforage.setItem resolves or rejects
RunStored ==
    /\ tm[1].experiment.pc = "complete"
    /\ \E stored \in BOOLEAN :
          \E u \in {ExperimentStored(tm[1], page, stored)} :
             /\ tm' = [tm EXCEPT ![1] = u.t]
             /\ page' = u.page
    /\ UNCHANGED <<manifestFile, cohortFirst, cohortOrders, legacy, objects, generators, server>>

\* the request reaches the server, which answers, or fetch rejects
RunPosted ==
    /\ tm[1].experiment.pc = "posting"
    /\ \E reached \in BOOLEAN, fsOk \in BOOLEAN :
          \E srv \in {IF reached
                      THEN saveExperimentData(server, <<experimentData(tm[1])>>, fsOk)
                      ELSE server} :
             /\ server' = srv
             /\ tm' = [tm EXCEPT ![1] = saveDataToServer(tm[1], reached /\ srv.status = 201)]
    /\ page' = [page EXCEPT !.completionShown = TRUE]
    /\ UNCHANGED <<manifestFile, cohortFirst, cohortOrders, legacy, objects, generators>>

NextRun ==
    \/ LoadManifest
    \/ ShowInitialsDialog
    \/ StartExperiment
    \/ RunLoopBlock
    \/ RunLoopTrial
    \/ RunLoopRest
    \/ RunStored
    \/ RunPosted

SpecRun == InitRun /\ [][NextRun]_vars

(***************************************************************************)
(* SpecKeydown: the keydown listener of initializeExperiment receives any  *)
(* sequence of keydown events while the awaits of the runs it started      *)
(* settle, each by resolving or by rejecting.                              *)
(***************************************************************************)
MaxKeydowns == 4

\* a run of the handler, at await trialManager.showInitialsDialog()
NewRun == [pc |-> "dialog", images |-> "idle", webgazer |-> "idle"]

\* A listener that starts a run on every keydown
keydownUnguarded(pg) ==
    [pg EXCEPT !.keydowns = @ + 1,
               !.experimentInitiated = TRUE,
               !.runs = Append(@, NewRun)]

\* the keydown listener up to its first await:
\* if (experimentInitiated) return; experimentInitiated = true; ...
keydown(pg) ==
    IF pg.experimentInitiated
    THEN [pg EXCEPT !.keydowns = @ + 1]
    ELSE [pg EXCEPT !.keydowns = @ + 1,
                    !.experimentInitiated = TRUE,
                    !.runs = Append(@, NewRun)]

\* catch (err) { console.error(...); experimentInitiated = false; }
InitializationError(pg, k) ==
    [pg EXCEPT !.runs[k].pc = "failed", !.experimentInitiated = FALSE]

\* showInitialsDialog settles: Promise.all starts setupImages and
\* initWebGazer, or the rejection is an initialisation error
DialogSettled(pg, k, ok) ==
    IF ok
    THEN [pg EXCEPT !.runs[k] = [pc |-> "setup", images |-> "pending",
                                 webgazer |-> "pending"]]
    ELSE InitializationError(pg, k)

\* a task of Promise.all([setupImages(), initWebGazer()]) settles: the
\* first rejection rejects Promise.all, the second fulfilment fulfils it; a
\* task settling after Promise.all was rejected has no effect on the run
TaskSettled(pg, k, task, ok) ==
    LET settled == [pg EXCEPT !.runs[k][task] = IF ok THEN "done" ELSE "rejected"]
        r == settled.runs[k]
    IN  IF r.pc # "setup" THEN settled
        ELSE IF ~ok THEN InitializationError(settled, k)
        ELSE IF r.images = "done" /\ r.webgazer = "done"
        THEN [settled EXCEPT !.runs[k].pc = "calibration"]
        ELSE settled

\* startCalibrationPhase resolves: its promise has no reject path
CalibrationResolved(pg, k) == [pg EXCEPT !.runs[k].pc = "experiment"]

\* startExperiment settles; its rejection is caught and logged by the
\* inner try, and the handler returns
ExperimentSettled(pg, k) == [pg EXCEPT !.runs[k].pc = "ended"]

InitKeydown ==
    /\ manifestFile \in {ManifestScenario}
    /\ tm = [s \in Sessions |-> TrialManager(0)]
    /\ cohortFirst = 0
    /\ cohortOrders = <<>>
    /\ legacy = LegacyTrialManager
    /\ objects = ConstructedObjects
    /\ generators = NoGenerators
    /\ server = ServerStarted
    /\ page = PageLoaded

Keydown ==
    /\ page.keydowns < MaxKeydowns
    /\ page' = keydown(page)
    /\ UNCHANGED <<tm, manifestFile, cohortFirst, cohortOrders, legacy, objects, generators, server>>

DialogSettles ==
    /\ \E k \in 1..Len(page.runs), ok \in BOOLEAN :
          /\ page.runs[k].pc = "dialog"
          /\ page' = DialogSettled(page, k, ok)
    /\ UNCHANGED <<tm, manifestFile, cohortFirst, cohortOrders, legacy, objects, generators, server>>

TaskSettles ==
    /\ \E k \in 1..Len(page.runs), task \in {"images", "webgazer"}, ok \in BOOLEAN :
          /\ page.runs[k][task] = "pending"
          /\ page' = TaskSettled(page, k, task, ok)
    /\ UNCHANGED <<tm, manifestFile, cohortFirst, cohortOrders, legacy, objects, generators, server>>

CalibrationResolves ==
    /\ \E k \in 1..Len(page.runs) :
          /\ page.runs[k].pc = "calibration"
          /\ page' = CalibrationResolved(page, k)
    /\ UNCHANGED <<tm, manifestFile, cohortFirst, cohortOrders, legacy, objects, generators, server>>

ExperimentSettles ==
    /\ \E k \in 1..Len(page.runs) :
          /\ page.runs[k].pc = "experiment"
          /\ page' = ExperimentSettled(page, k)
    /\ UNCHANGED <<tm, manifestFile, cohortFirst, cohortOrders, legacy, objects, generators, server>>

NextKeydown ==
    \/ Keydown
    \/ DialogSettles
    \/ TaskSettles
    \/ CalibrationResolves
    \/ ExperimentSettles

SpecKeydown == InitKeydown /\ [][NextKeydown]_vars

(***************************************************************************)
(* SpecCalibration: startCalibrationPhase of the manifest-driven           *)
(* TrialManager with WebGazer loaded: the timers show the calibration      *)
(* dots, the participant clicks dots that are on the screen, and each      *)
(* click handler records its samples one timer at a time.                  *)
(***************************************************************************)
\* calibrationPoints.length
CalibrationPoints == 9

\* for (let i = 0; i < 10; i++) { await ...; webgazer.recordScreenPosition }
SamplesPerClick == 10

\* the clicks explored on dots that were clicked before
MaxRepeatClicks == 1

\* startCalibrationPhase(): the screen is created and
\* setTimeout(showCalibrationPoint, 1000)
startCalibrationPhase(c) == [c EXCEPT !.pc = "running", !.timers = 1]

\* showCalibrationPoint(): const point = calibrationPoints[currentPoint];
\* reading point.x of undefined throws in the timer callback
showCalibrationPoint(c) ==
    IF c.currentPoint < CalibrationPoints
    THEN [c EXCEPT !.timers = @ - 1,
                   !.dots = Append(@, [point |-> c.currentPoint, present |-> TRUE,
                                       clicks |-> 0])]
    ELSE [c EXCEPT !.timers = @ - 1, !.errors = @ + 1]

\* the click listener of dot d up to its first await
ClickDot(c, d) ==
    [c EXCEPT !.dots[d].clicks = @ + 1,
              !.handlers = Append(@, [dot |-> d, i |-> 0])]

\* the click listener after its loop: dot.remove(); currentPoint++; the
\* next point is scheduled or the calibration is validated
SamplesRecorded(c, h) ==
    LET d == c.handlers[h].dot
        next == c.currentPoint + 1
        u == [c EXCEPT !.dots[d].present = FALSE, !.currentPoint = next]
    IN  IF next < CalibrationPoints
        THEN [u EXCEPT !.timers = @ + 1]
        ELSE [u EXCEPT !.validations = @ + 1,
                       !.dots = [k \in DOMAIN @ |-> [@[k] EXCEPT !.present = FALSE]]]

\* one timer of the click listener of handler h fires:
\* webgazer.recordScreenPosition(...)
RecordSample(c, h) ==
    LET u == [c EXCEPT !.handlers[h].i = @ + 1]
    IN  IF u.handlers[h].i < SamplesPerClick THEN u ELSE SamplesRecorded(u, h)

\* validateCalibration returns: calibrationDiv.remove(); resolve()
CalibrationValidated(c) ==
    [c EXCEPT !.validations = @ - 1, !.resolved = TRUE, !.resolveCalls = @ + 1]

InitCalibration ==
    /\ manifestFile \in {ManifestScenario}
    /\ tm = [s \in Sessions |-> TrialManager(0)]
    /\ cohortFirst = 0
    /\ cohortOrders = <<>>
    /\ legacy = LegacyTrialManager
    /\ objects = ConstructedObjects
    /\ generators = NoGenerators
    /\ server = ServerStarted
    /\ page = [PageLoaded EXCEPT !.calibration = startCalibrationPhase(NoCalibration)]

RepeatClicks(c) ==
    Cardinality({h \in 1..Len(c.handlers) :
                    \E g \in 1..(h - 1) : c.handlers[g].dot = c.handlers[h].dot})

ShowPoint ==
    /\ page.calibration.timers > 0
    /\ page' = [page EXCEPT !.calibration = showCalibrationPoint(@)]
    /\ UNCHANGED <<tm, manifestFile, cohortFirst, cohortOrders, legacy, objects, generators, server>>

Click ==
    /\ \E d \in 1..Len(page.calibration.dots) :
          /\ page.calibration.dots[d].present
          /\ page.calibration.dots[d].clicks = 0
                \/ RepeatClicks(page.calibration) < MaxRepeatClicks
          /\ page' = [page EXCEPT !.calibration = ClickDot(@, d)]
    /\ UNCHANGED <<tm, manifestFile, cohortFirst, cohortOrders, legacy, objects, generators, server>>

\* The timers of the handlers all wait 150 ms, each set when the one before
\* it fired: the k-th timer of a handler fires before the k-th timer of a
\* handler started later
SampleTimer ==
    /\ \E h \in 1..Len(page.calibration.handlers) :
          /\ page.calibration.handlers[h].i < SamplesPerClick
          /\ \A g \in 1..(h - 1) :
                page.calibration.handlers[g].i > page.calibration.handlers[h].i
          /\ page' = [page EXCEPT !.calibration = RecordSample(@, h)]
    /\ UNCHANGED <<tm, manifestFile, cohortFirst, cohortOrders, legacy, objects, generators, server>>

Validated ==
    /\ page.calibration.validations > 0
    /\ page' = [page EXCEPT !.calibration = CalibrationValidated(@)]
    /\ UNCHANGED <<tm, manifestFile, cohortFirst, cohortOrders, legacy, objects, generators, server>>

NextCalibration ==
    \/ ShowPoint
    \/ Click
    \/ SampleTimer
    \/ Validated

SpecCalibration == InitCalibration /\ [][NextCalibration]_vars

(***************************************************************************)
(* SpecGaze: one session of the legacy paradigm as its calibration and its *)
(* gaze listener see it: the calibration points and the clicks on them,    *)
(* the calls of startCalibrationPhase and startExperiment, the trials with *)
(* the samples the gaze listener records meanwhile, and the final save and *)
(* download. The objects a trial shows are those of SpecLegacy and are     *)
(* left out. Between the return of runTrial and the next runTrial call,    *)
(* and between the last runTrial and the localforage.setItem call, only    *)
(* microtasks run: no listener and no outside call comes in between.       *)
(***************************************************************************)
\* predefinedPositions.length
PredefinedPositions == 9

\* bound: the samples the gaze listener is called with in a session
MaxGazeSamples == 3

\* bound: the calls of startCalibrationPhase and startExperiment in a session
MaxLegacyCalls == 3

\* createCalibrationPoint(): past the last position the calibration is
\* complete and startExperiment is called, else the next point is put on
\* the page with its click listener
createCalibrationPoint(l) ==
    IF l.currentPointIndex >= PredefinedPositions
    THEN LegacyCalibrated([l EXCEPT !.calibrationPoint = FALSE,
                                    !.calibrationInProgress = FALSE])
    ELSE [l EXCEPT !.calibrationPoint = TRUE]

\* startCalibrationPhase() of the legacy paradigm
LegacyStartCalibrationPhase(l) ==
    IF l.calibrationInProgress \/ l.calibrationComplete THEN l
    ELSE createCalibrationPoint([l EXCEPT !.calibrationInProgress = TRUE,
                                          !.currentPointIndex = 0])

\* clickHandler of the point on the page, registered with once: true
clickHandler(l) ==
    IF ~l.calibrationInProgress THEN [l EXCEPT !.calibrationPoint = FALSE]
    ELSE createCalibrationPoint([l EXCEPT !.recorded = Append(@, l.currentPointIndex),
                                          !.currentPointIndex = @ + 1])

\* processGazeData(gazePoint, trialStartTime): the sample, here its rank in
\* allGazeData, is pushed to the array currentGazeData refers to and to
\* allGazeData
processGazeData(l) ==
    LET gazeData == Len(l.allGazeData) + 1
    IN  [l EXCEPT !.gazeArrays[l.currentGazeData] = Append(@, gazeData),
                  !.allGazeData = Append(@, gazeData)]

\* the gaze listener set in initWebGazer, called with a sample
GazeListener(l) ==
    IF l.startTime # 0 THEN processGazeData(l) ELSE l

\* runTrial(trialType) up to its first await: a new array for
\* currentGazeData, and the new currentTrialData with its startTime
LegacyTrialShown(l) ==
    [l EXCEPT !.gazeArrays = Append(@, <<>>),
              !.currentGazeData = Len(l.gazeArrays) + 1,
              !.startTime = l.currentTrial + 1,
              !.trial = [NoLegacyTrial EXCEPT
                            !.type = trialTypes[(l.i % Len(trialTypes)) + 1]],
              !.pc = "shown"]

\* runTrial after its last await: gazeData of the record is the array
\* currentGazeData refers to, not a copy; the record is pushed to trialData,
\* currentTrial++, and the loop of startExperiment goes on
LegacyTrialRecorded(l) ==
    LET record == [trialNumber |-> l.currentTrial + 1,
                   type |-> l.trial.type,
                   startTime |-> l.startTime,
                   gazeData |-> l.currentGazeData]
    IN  [l EXCEPT !.trialData = Append(@, record),
                  !.currentTrial = @ + 1,
                  !.i = @ + 1,
                  !.trial = NoLegacyTrial,
                  !.pc = IF l.i + 1 < l.trialCount THEN "trials" ELSE "complete"]

\* JSON.stringify(experimentData, null, 2): every array as it is at the call
LegacyExperimentData(l) ==
    [trialData |-> [k \in 1..Len(l.trialData) |->
                       [l.trialData[k] EXCEPT !.gazeData = l.gazeArrays[@]]],
     gazeData |-> l.allGazeData,
     totalTrials |-> l.trialCount]

\* startExperiment of the legacy paradigm once localforage.setItem has
\* settled: the download and the alert, or the alert of the catch clause
LegacySaved(l, pg, stored) ==
    [l |-> [l EXCEPT !.pc = "done"],
     page |-> IF stored
              THEN [pg EXCEPT !.storage = Append(@, "experimentData"),
                              !.downloads = Append(@, LegacyExperimentData(l)),
                              !.alerts = @ + 1]
              ELSE [pg EXCEPT !.alerts = @ + 1]]

InitGaze ==
    /\ manifestFile \in {ManifestScenario}
    /\ tm = [s \in Sessions |-> TrialManager(0)]
    /\ cohortFirst = 0
    /\ cohortOrders = <<>>
    /\ legacy = LegacyTrialManager
    /\ objects = ConstructedObjects
    /\ generators = NoGenerators
    /\ server = ServerStarted
    /\ page = PageLoaded

\* the places of a session at which a task of the event loop can run
Interruptible(l) == l.pc \in {"calibration", "shown", "saving", "done"}

\* startCalibrationPhase(), from initializeExperiment or from elsewhere
CalibrationCall ==
    /\ Interruptible(legacy)
    /\ Len(legacy.calls) < MaxLegacyCalls
    /\ legacy' = [LegacyStartCalibrationPhase(legacy) EXCEPT
                     !.calls = Append(@, "startCalibrationPhase")]
    /\ UNCHANGED <<tm, manifestFile, cohortFirst, cohortOrders, objects, generators, server, page>>

\* startExperiment() called from elsewhere than createCalibrationPoint,
\* before the experiment has started
ExperimentCall ==
    /\ legacy.pc = "calibration"
    /\ Len(legacy.calls) < MaxLegacyCalls
    /\ legacy' = [LegacyStartExperiment(legacy) EXCEPT
                     !.calls = Append(@, "startExperiment")]
    /\ UNCHANGED <<tm, manifestFile, cohortFirst, cohortOrders, objects, generators, server, page>>

ClickPoint ==
    /\ legacy.calibrationPoint
    /\ legacy' = clickHandler(legacy)
    /\ UNCHANGED <<tm, manifestFile, cohortFirst, cohortOrders, objects, generators, server, page>>

GazeSample ==
    /\ Interruptible(legacy)
    /\ Len(legacy.allGazeData) < MaxGazeSamples
    /\ legacy' = GazeListener(legacy)
    /\ UNCHANGED <<tm, manifestFile, cohortFirst, cohortOrders, objects, generators, server, page>>

TrialShown ==
    /\ legacy.pc = "trials"
    /\ legacy' = LegacyTrialShown(legacy)
    /\ UNCHANGED <<tm, manifestFile, cohortFirst, cohortOrders, objects, generators, server, page>>

TrialRecorded ==
    /\ legacy.pc = "shown"
    /\ legacy' = LegacyTrialRecorded(legacy)
    /\ UNCHANGED <<tm, manifestFile, cohortFirst, cohortOrders, objects, generators, server, page>>

\* await localforage.setItem("experimentData", experimentData)
SaveCalled ==
    /\ legacy.pc = "complete"
    /\ legacy' = [legacy EXCEPT !.pc = "saving"]
    /\ UNCHANGED <<tm, manifestFile, cohortFirst, cohortOrders, objects, generators, server, page>>

SaveSettled ==
    /\ legacy.pc = "saving"
    /\ \E stored \in BOOLEAN :
          \E u \in {LegacySaved(legacy, page, stored)} :
              /\ legacy' = u.l
              /\ page' = u.page
    /\ UNCHANGED <<tm, manifestFile, cohortFirst, cohortOrders, objects, generators, server>>

NextGaze ==
    \/ LegacyDialog
    \/ CalibrationCall
    \/ ExperimentCall
    \/ ClickPoint
    \/ GazeSample
    \/ TrialShown
    \/ TrialRecorded
    \/ SaveCalled
    \/ SaveSettled

SpecGaze == InitGaze /\ [][NextGaze]_vars


(***************************************************************************)
(* Properties.                                                             *)
(***************************************************************************)
\* The sessions in which counterbalancing has been assigned
Assigned == {s \in Sessions : Ready(tm[s])}

\* The trials a session generated in the ratio-discrimination paradigm:
\* the experiment type is chosen before the first trial and kept
DiscriminationTrials(s) ==
    IF tm[s].experimentType \in {"shapes", "colors"} THEN {}
    ELSE {tm[s].trialLog[k].trial : k \in 1..Len(tm[s].trialLog)}

AllTrials(s) == {tm[s].trialLog[k].trial : k \in 1..Len(tm[s].trialLog)}

IsPermutation(order, levels) ==
    /\ Len(order) = Len(levels)
    /\ \A l \in Range(levels) : Cardinality({k \in 1..Len(order) : order[k] = l}) = 1

\* C1: two sessions with the same participantId and manifest that receive
\* the same sequence of calls have the same blockDifficultyOrder, the same
\* color for every block and the same trials in the same order.
C1_ReplayIdentical ==
    \A a, b \in Sessions :
        /\ tm[a].blockDifficultyOrder = tm[b].blockDifficultyOrder
        /\ Len(tm[a].blockLog) = Len(tm[b].blockLog)
        /\ \A k \in 1..Len(tm[a].blockLog) :
              tm[a].blockLog[k].color = tm[b].blockLog[k].color
        /\ tm[a].trialLog = tm[b].trialLog

\* C2: for every integer participantId, assignCounterbalancing sets
\* blockDifficultyOrder to a permutation of the difficulty levels.
C2_OrderIsPermutation ==
    \A s \in Assigned :
        IsPermutation(tm[s].blockDifficultyOrder, LevelNames(tm[s].manifest))

\* N consecutive rows are pairwise distinct and every level occupies every
\* position exactly once across them
Balanced(rows, levels) ==
    /\ \A r \in 1..Len(rows) : Len(rows[r]) = Len(levels)
    /\ \A q, r \in 1..Len(rows) : q # r => rows[q] # rows[r]
    /\ \A i \in 1..Len(levels) : \A l \in Range(levels) :
          Cardinality({r \in 1..Len(rows) : rows[r][i] = l}) = 1

\* C3: for N levels, the orders assigned to any N consecutive participant
\* IDs, starting at any offset, are pairwise distinct and every level
\* occupies every position exactly once across them.
C3_LatinSquareBalance ==
    LET levels == LevelNames(manifestFile)
        N == Len(levels)
    IN  \A first \in 1..(Len(cohortOrders) - N + 1) :
            Balanced(SubSeq(cohortOrders, first, first + N - 1), levels)

\* C4: the assigned order is the level list rotated left by
\* participantId mod N positions.
C4_RotatedByPidModN ==
    \A s \in Assigned :
        LET levels == LevelNames(tm[s].manifest)
            N == Len(levels)
            order == tm[s].blockDifficultyOrder
        IN  /\ Len(order) = N
            /\ \A k \in 1..N :
                  order[k] = levels[((k - 1 + (tm[s].participantId % N)) % N) + 1]

\* The colors of the non-practice blocks a session has started, in order
ExperimentalColors(s) ==
    LET idx == {k \in 1..Len(tm[s].blockLog) : ~tm[s].blockLog[k].practice}
    IN  [count |-> Cardinality(idx), colors |-> {tm[s].blockLog[k].color : k \in idx}]

\* C5: no two non-practice blocks of a session have the same color, as long
\* as no more non-practice blocks were started than the manifest has colors,
\* whatever practice blocks were started in between.
C5_NoColorRepeat ==
    \A s \in Sessions :
        ExperimentalColors(s).count <= Len(manifestFile.colors)
            => Cardinality(ExperimentalColors(s).colors) = ExperimentalColors(s).count

\* A block whose color startBlock takes from the pool
DrawsFromPool(m, practice) == ~(practice /\ m.practice.allowColorRepeat)

\* Every color of the pool has been taken since the pool was last filled
PoolExhausted(t) ==
    /\ t.remainingColors = <<>>
    /\ \E k \in 1..Len(t.blockLog) : DrawsFromPool(t.manifest, t.blockLog[k].practice)

\* C6: a startBlock call that needs a color from the pool when the pool is
\* exhausted fails with "Color pool exhausted" and leaves the pool empty.
C6_ExhaustedPoolThrows ==
    [][\A s \in Driven :
          (/\ StartBlock
           /\ PoolExhausted(tm[s])
           /\ DrawsFromPool(tm[s].manifest, tm'[s].isPractice))
          => (/\ tm'[s].thrown = "Color pool exhausted"
              /\ tm'[s].remainingColors = <<>>)]_vars

C8_FoilRatiosAllowed ==
    \A s \in Sessions : \A trial \in DiscriminationTrials(s) :
        HasLevel(tm[s].manifest, trial.difficulty) =>
            \A i \in 1..2 :
                /\ trial.foils[i].ratio \in
                      Range(LevelRatios(tm[s].manifest, trial.difficulty))
                /\ trial.foils[i].ratio # tm[s].manifest.constraints.targetRatio

\* C9: in the ratio-discrimination paradigm both foils have the target's
\* shape and color, each foil's ratio differs from the target's and the two
\* foils' ratios differ from each other.
C9_FoilsDifferOnlyInRatio ==
    \A s \in Sessions : \A trial \in DiscriminationTrials(s) :
        /\ \A i \in 1..2 :
              /\ trial.foils[i].shape = trial.target.shape
              /\ trial.foils[i].color = trial.target.color
              /\ trial.foils[i].ratio # trial.target.ratio
        /\ trial.foils[1].ratio # trial.foils[2].ratio

\* C10: every trial generated after a startBlock and before the next one
\* has a target of the color startBlock assigned to that block.
C10_TargetHasBlockColor ==
    \A s \in Sessions : \A k \in 1..Len(tm[s].trialLog) :
        tm[s].trialLog[k].block >= 1 =>
            tm[s].trialLog[k].trial.target.color
                = tm[s].blockLog[tm[s].trialLog[k].block].color

\* C11: a handleTrialResponse(response) call made after a generateTrial
\* appends exactly one record, with correct = (response = "target"), and
\* increments currentTrialIndex; so the log has as many records as there
\* were handleTrialResponse calls.
C11_ResponseAppendsOneRecord ==
    [][\A s \in Driven :
          (HandleTrialResponse /\ tm[s].currentTrial # NoTrial)
          => (/\ Len(tm'[s].trialData) = Len(tm[s].trialData) + 1
              /\ LET record == tm'[s].trialData[Len(tm'[s].trialData)]
                 IN  record.correct = (record.response = "target")
              /\ tm'[s].currentTrialIndex = tm[s].currentTrialIndex + 1
              /\ Len(tm'[s].trialData) = tm'[s].handled)]_vars

TrialRecordFields ==
    {"participantId", "practice", "blockIndex", "trialIndex", "shape", "color",
     "difficulty", "foilRatio", "response", "correct", "rt"}

\* C12: every record of trialData carries all TrialRecord fields.
C12_RecordsHaveAllFields ==
    \A s \in Sessions : \A k \in 1..Len(tm[s].trialData) :
        TrialRecordFields \subseteq DOMAIN tm[s].trialData[k]

IsPrefix(a, b) == Len(a) <= Len(b) /\ SubSeq(b, 1, Len(a)) = a

\* no two records of the log are of the same trial of the same block
EachTrialOnce(log) ==
    \A i, j \in 1..Len(log) :
        i # j => <<log[i].practice, log[i].blockIndex, log[i].trialIndex>>
                    # <<log[j].practice, log[j].blockIndex, log[j].trialIndex>>

C14_OnlyResponsesAreLogged ==
    [][\A s \in Driven :
          tm'[s].trialData # tm[s].trialData => HandleTrialResponse]_vars

\* C15: no choice of a session depends on an entropy source other than the
\* participant-seeded generator: whatever Math.random returns, starting a
\* block leaves the session in the same state.
C15_SeededChoicesOnly ==
    [][\A s \in Driven : \A random \in RandomIndexes :
          /\ StartBlock =>
                tm'[s] = startBlock(tm[s], NextBlockIndex(tm[s], tm'[s].isPractice),
                                    tm'[s].isPractice, random)
          /\ RunBlock => tm'[s] = ExperimentBlock(tm[s], random)]_vars

\* C16: the trials generated do not depend on the renderer: two sessions
\* with the same participantId, manifest and calls generate the same
\* trials whether renderTrial was called, skipped or failed in between.
C16_TrialsIndependentOfRenderer ==
    \A a, b \in Sessions :
        [k \in 1..Len(tm[a].trialLog) |-> tm[a].trialLog[k].trial]
            = [k \in 1..Len(tm[b].trialLog) |-> tm[b].trialLog[k].trial]

\* C17: generateTrial fails with an invalid-difficulty error and produces
\* no trial when the current block's difficulty is not a key of
\* manifest.difficultyLevels.
C17_InvalidDifficultyFails ==
    [][\A s \in Driven :
          (/\ GenerateTrial
           /\ tm[s].blockLog # <<>>
           /\ ~HasLevel(tm[s].manifest, tm[s].currentBlockDifficulty))
          => (/\ tm'[s].thrown # "none"
              /\ tm'[s].trialLog = tm[s].trialLog
              /\ tm'[s].currentTrial = tm[s].currentTrial)]_vars

\* The manifest has no two distinct foils for the paradigm of the session
NoFoilCandidates(t) ==
    IF t.experimentType = "shapes"
    THEN Len(t.manifest.shapes) < 2 \/ Len(t.manifest.colors) < 2
    ELSE IF t.experimentType = "colors"
    THEN Len(t.manifest.colors) < 2
    ELSE /\ HasLevel(t.manifest, t.currentBlockDifficulty)
         /\ Len(LevelRatios(t.manifest, t.currentBlockDifficulty)) < 2

\* C18: when no foil satisfying the paradigm's constraints exists,
\* generateTrial fails and produces no trial.
C18_NoFoilCandidatesFails ==
    [][\A s \in Driven :
          (GenerateTrial /\ tm[s].blockLog # <<>> /\ NoFoilCandidates(tm[s]))
          => (/\ tm'[s].thrown # "none"
              /\ tm'[s].trialLog = tm[s].trialLog)]_vars

\* C19: an error raised while a trial is generated or run inside
\* startExperiment is surfaced to the caller: the run never goes on after
\* only logging it.
C19_ErrorsAreSurfaced ==
    \A s \in Sessions :
        tm[s].experiment.caught # <<>> => tm[s].experiment.pc = "rejected"

RequiredKeys ==
    {"shapes", "colors", "difficultyLevels", "blocks", "trialsPerBlock", "constraints"}

ValidManifest(m) ==
    /\ RequiredKeys \subseteq DOMAIN m
    /\ \A k \in 1..Len(m.difficultyLevels) : m.difficultyLevels[k].ratios # <<>>
    /\ m.constraints.noColorRepeatAcrossBlocks => m.blocks <= Len(m.colors)

\* C20: no block is ever started with an invalid manifest.
C20_NoBlockOnInvalidManifest ==
    \A s \in Sessions :
        tm[s].blockLog # <<>> => ValidManifest(tm[s].manifest)

\* C21: whatever experiment type was chosen in the dialog, every trial
\* generateTrial yields has foils of the target's shape and of the target's
\* color; otherwise generateTrial raises an error and yields no trial.
C21_FoilsShareShapeAndColor ==
    \A s \in Sessions : \A trial \in AllTrials(s) :
        \A i \in 1..2 :
            /\ trial.foils[i].shape = trial.target.shape
            /\ trial.foils[i].color = trial.target.color

\* The numbers of the two distractors of a logged legacy trial
Distractors(record) ==
    SelectSeq(record.positions, LAMBDA obj : ~obj.isTarget)

\* C22: in the legacy paradigm the trials alternate between Type 1 and
\* Type 2; a Type 1 trial shows the target with two identical distractors,
\* a Type 2 trial shows it with two different distractors, and no
\* distractor is the target itself.
C22_TrialTypesAlternate ==
    \A k \in 1..Len(legacy.trialData) :
        LET record == legacy.trialData[k]
            d == Distractors(record)
        IN  /\ record.type = trialTypes[((k - 1) % 2) + 1]
            /\ Len(d) = 2
            /\ record.type = Str("1") => d[1].num = d[2].num
            /\ record.type = Str("2") => d[1].num # d[2].num
            /\ \A n \in 1..Len(d) : d[n].num # record.object1

\* The exclusion list leaves a number of 1..totalImages available
SomeAvailable(l) == \E n \in 1..l.totalImages : ~Includes(l.call.exclude, n)

\* C23: getRandomObjectNumber(exclude) returns a number of 1..totalImages
\* that is not in exclude, whenever exclude leaves a number available and
\* whatever the random draws are.
C23_ReturnsAvailableNumber ==
    (legacy.call.pc = "returned" /\ SomeAvailable(legacy))
        => /\ legacy.call.objectNum \in 1..legacy.totalImages
           /\ ~Includes(legacy.call.exclude, legacy.call.objectNum)

\* C24: getRandomObjectNumber terminates: after its first attempt it makes
\* at most maxAttempts (100) retries, every call under way returns, and a
\* call with every number of 1..totalImages excluded has warned that the
\* maximum was reached and returns a number of 1..totalImages.
C24_RetriesBounded ==
    /\ [](legacy.call.attempts - 1 <= maxAttempts)
    /\ []((legacy.call.pc = "returned" /\ ~SomeAvailable(legacy))
             => /\ legacy.call.warned
                /\ legacy.call.objectNum \in 1..legacy.totalImages)
    /\ (legacy.call.pc = "loop" ~> legacy.call.pc = "returned")

\* C24 witness: a call with every number excluded has made its first
\* attempt and maxAttempts retries, warned and returned.
C24_Witness ==
    /\ legacy.call.pc = "returned"
    /\ ~SomeAvailable(legacy)
    /\ legacy.call.attempts = maxAttempts + 1
    /\ legacy.call.warned

\* text.split(separator): the texts between the separators
Split(text, separator) ==
    LET at == {i \in 1..Len(text) : text[i] = separator}
        \* the position of the k-th separator; 0 and Len(text) + 1 bound the text
        nth(k) == IF k = 0 THEN 0
                  ELSE IF k > Cardinality(at) THEN Len(text) + 1
                  ELSE CHOOSE i \in at : Cardinality({j \in at : j <= i}) = k
    IN  [k \in 1..(Cardinality(at) + 1) |-> SubSeq(text, nth(k - 1) + 1, nth(k) - 1)]

\* C25: exportCSV returns the empty string for an empty log; otherwise the
\* export is a table: a header row and one row per record, in log order,
\* whose columns are the keys of the first record in insertion order, each
\* row holding one cell per column with the record's value for that key.
C25_ExportIsTabular ==
    \A s \in Sessions :
        LET log == tm[s].trialData
            lines == Split(exportCSV(log), LineFeed)
        IN  IF log = <<>> THEN exportCSV(log) = <<>>
            ELSE LET headers == ObjectKeys(log[1])
                 IN  /\ Len(lines) = Len(log) + 1
                     /\ Split(lines[1], Comma)
                           = [c \in 1..Len(headers) |-> <<headers[c]>>]
                     /\ \A k \in 1..Len(log) :
                           Split(lines[k + 1], Comma)
                              = [c \in 1..Len(headers) |-> CellText(log[k], headers[c])]

\* What a session holds of the state the claim names, read through the heap
Shared(obj, t, s) ==
    LET v == SessionView(obj, t, s)
    IN  [rng |-> v.rng, remainingColors |-> v.remainingColors,
         blockDifficultyOrder |-> v.blockDifficultyOrder, trialData |-> v.trialData]

\* C26: two sessions share no mutable state: in any interleaving, a call on
\* one session leaves the other session's generator, remainingColors,
\* blockDifficultyOrder and trialData as they were.
C26_SessionsIsolated ==
    [][\A s, o \in Sessions :
          (s # o /\ tm'[s] # tm[s])
             => Shared(objects', tm'[o], o) = Shared(objects, tm[o], o)]_vars

\* C26 witness: both sessions, of different participants, have drawn block
\* colors from their pools and logged a trial.
C26_Witness ==
    /\ tm[1].participantId # tm[2].participantId
    /\ \A s \in Sessions :
          /\ View(s).rng # NoRng
          /\ View(s).trialData # <<>>
          /\ Len(View(s).remainingColors) < Len(View(s).manifest.colors)

\* the number u / 4294967296 of the numerator u lies in [0, 1)
InUnitInterval(u) == u[1] \in 0..(Half - 1) /\ u[2] \in 0..(Half - 1)

\* C27: the k-th number a generator yields depends only on its seed and on
\* k and lies in [0, 1): two generators made from the same seed have
\* yielded the same numbers, as far as both were called, whatever calls
\* were made on other generators in between.
C27_SameSeedSameSequence ==
    \A a, b \in 1..Len(generators.made) :
        LET x == generators.made[a]
            y == generators.made[b]
        IN  /\ \A k \in 1..Len(x.outputs) : InUnitInterval(x.outputs[k])
            /\ x.seed = y.seed =>
                  \A k \in 1..Len(x.outputs) :
                      k <= Len(y.outputs) => x.outputs[k] = y.outputs[k]

\* C27 witness: two generators of the same seed were called twice each,
\* with calls of a generator of another seed in between.
C27_Witness ==
    \E a, b, c \in 1..Len(generators.made) :
        /\ a < c /\ c < b
        /\ generators.made[a].seed = generators.made[b].seed
        /\ generators.made[c].seed # generators.made[a].seed
        /\ \A n \in {a, b, c} : Len(generators.made[n].outputs) = MaxOutputs
        /\ generators.made[a].outputs[1] # generators.made[a].outputs[2]

\* C28: the endpoint stores the document and answers 201 whenever its
\* participantId is an integer, 0 included, and the file system takes the
\* write; it answers 400, writing no file, only when the body or the
\* participantId is absent.
C28_IntegerIdsAreStored ==
    [][server' # server =>
          LET body == server'.request
              present == body # <<>> /\ "participantId" \in DOMAIN body[1]
          IN  /\ (present /\ server'.status # 500) =>
                    /\ server'.status = 201
                    /\ server'.files = Append(server.files, body[1])
              /\ server'.status = 400 =>
                    /\ ~present
                    /\ server'.files = server.files]_vars

\* The step started a block in session s, which returned normally
BlockStarted(s) ==
    /\ StartBlock \/ RunBlock
    /\ Len(tm'[s].blockLog) = Len(tm[s].blockLog) + 1
    /\ tm'[s].thrown = "none"

\* C29: each start of a non-practice block, with a pool that was
\* initialised, removes exactly one color from remainingColors: the block's
\* color was in the pool before the call and is not after it, and the rest
\* of the pool is as it was, in the same order.
C29_BlockTakesOneColor ==
    [][\A s \in Driven :
          (/\ BlockStarted(s)
           /\ ~tm'[s].isPractice
           /\ tm[s].remainingColors # <<>> \/ PoolExhausted(tm[s]))
          => (/\ tm'[s].currentBlockColor \in Range(tm[s].remainingColors)
              /\ tm'[s].currentBlockColor \notin Range(tm'[s].remainingColors)
              /\ Len(tm'[s].remainingColors) = Len(tm[s].remainingColors) - 1
              /\ tm'[s].remainingColors
                    = Without(tm[s].remainingColors, tm'[s].currentBlockColor))]_vars

\* C30: a practice block started while manifest.practice.allowColorRepeat
\* is true gets a color of manifest.colors and leaves remainingColors as it
\* was.
C30_PracticeLeavesPool ==
    [][\A s \in Driven :
          (/\ BlockStarted(s)
           /\ tm'[s].isPractice
           /\ tm[s].manifest.practice.allowColorRepeat)
          => (/\ tm'[s].currentBlockColor \in Range(tm[s].manifest.colors)
              /\ tm'[s].remainingColors = tm[s].remainingColors)]_vars

\* C30 witness: after an experimental block took a color from the pool, a
\* practice block was given that same color, the pool still one short.
C30_Witness ==
    /\ HasManifest(tm[1])
    /\ tm[1].manifest.practice.allowColorRepeat
    /\ Len(tm[1].blockLog) = 2
    /\ ~tm[1].blockLog[1].practice
    /\ tm[1].blockLog[2].practice
    /\ tm[1].blockLog[2].color = tm[1].blockLog[1].color
    /\ tm[1].isPractice
    /\ Len(tm[1].remainingColors) = Len(tm[1].manifest.colors) - 1
\* C34: the manifest is immutable after load: no step of a session changes
\* shapes, colors, difficultyLevels, blocks or trialsPerBlock of the
\* manifest the session has loaded.
C34_ManifestImmutable ==
    [][\A s \in Driven :
          HasManifest(tm[s])
          => \A k \in {"shapes", "colors", "difficultyLevels", "blocks", "trialsPerBlock"} :
                tm'[s].manifest[k] = tm[s].manifest[k]]_vars

\* C31: every block startExperiment has started has a difficulty that is a
\* key of manifest.difficultyLevels, blockDifficultyOrder[blockIndex] for
\* an experimental block and "easy" for a practice block; starting a block
\* resets the trial counter to 0, and every trial of a block has the
\* block's difficulty.
C31_BlockDifficultyIsLevel ==
    [][\A s \in Driven :
          /\ \A k \in 1..Len(tm'[s].blockLog) :
                LET e == tm'[s].blockLog[k]
                IN  /\ e.difficulty \in Range(LevelNames(tm'[s].manifest))
                    /\ e.difficulty = IF e.practice THEN "easy"
                                      ELSE At(tm'[s].blockDifficultyOrder, e.blockIndex)
          /\ Len(tm'[s].blockLog) > Len(tm[s].blockLog) => tm'[s].currentTrialIndex = 0
          /\ \A k \in 1..Len(tm'[s].trialLog) :
                tm'[s].trialLog[k].trial.difficulty
                    = tm'[s].blockLog[tm'[s].trialLog[k].block].difficulty]_vars

\* startExperiment has left its block loop
RunEnded(t) == t.experiment.pc \in {"complete", "posting", "finished"}

RestsElapsed(t) ==
    IF t.experiment.b < TotalBlocks(t) THEN t.experiment.b
    ELSE IF TotalBlocks(t) = 0 THEN 0 ELSE TotalBlocks(t) - 1

\* C33: in startExperiment a rest interval follows every block except the
\* last one and precedes the start of the next block: wherever the run loop
\* is, as many rest intervals have elapsed as blocks have ended that were
\* not the last; and the rest interval itself changes nothing of the
\* session (block, trial counter, color pool, generator, log).
C33_RestBetweenBlocks ==
    [][/\ tm'[1].experiment.pc # "idle" => page'.rests = RestsElapsed(tm'[1])
       /\ tm[1].experiment.pc = "rest"
             => /\ [tm'[1] EXCEPT !.experiment = tm[1].experiment] = tm[1]
                /\ tm'[1].experiment.pc = "block"
                /\ Len(tm'[1].blockLog) = tm[1].experiment.b + 1]_vars

\* C33 witness: a run of three blocks has ended after two rest intervals.
C33_Witness ==
    /\ RunEnded(tm[1])
    /\ Len(tm[1].blockLog) = 3
    /\ page.rests = 2

\* C38: once startExperiment has gone through its completion step, the
\* trial data have been offered as a download and sent to the server,
\* whether or not localforage.setItem succeeded.
C38_ChannelsIndependent ==
    tm[1].experiment.pc = "finished"
        => /\ page.downloads # <<>>
           /\ page.posts # <<>>

\* The runs of the keydown handler that have not returned
RunsInProgress(pg) == {k \in 1..Len(pg.runs) : pg.runs[k].pc \notin {"ended", "failed"}}

\* C36: for any sequence of keydown events at most one run of the handler
\* is in progress at a time: a keydown received while a run is in progress
\* starts nothing, and a run starts only when there was none before or the
\* latest one ended with an initialisation error.
C36_OneRunAtATime ==
    [][/\ Cardinality(RunsInProgress(page')) <= 1
       /\ (page'.keydowns > page.keydowns /\ RunsInProgress(page) # {})
             => page'.runs = page.runs
       /\ Len(page'.runs) > Len(page.runs)
             => /\ RunsInProgress(page) = {}
                /\ page.runs # <<>> => page.runs[Len(page.runs)].pc = "failed"]_vars

\* C36 witness: a second run was started after the first one failed, and
\* later keydowns were received without starting a third.
C36_Witness ==
    /\ Len(page.runs) = 2
    /\ page.runs[1].pc = "failed"
    /\ page.runs[2].pc = "experiment"
    /\ page.keydowns = 4

\* C37: during startCalibrationPhase, however the clicks on the dots
\* interleave with the timed recording of the samples, the calibration
\* points are shown in order, each once; the point index never exceeds 9;
\* resolve is called at most once and only after all nine points were
\* shown and the samples of every click were recorded.
C37_NinePointsInOrder ==
    LET c == page.calibration
    IN  /\ \A k \in 1..Len(c.dots) : c.dots[k].point = k - 1
        /\ c.currentPoint <= CalibrationPoints
        /\ c.resolveCalls <= 1
        /\ c.resolved
              => /\ Len(c.dots) = CalibrationPoints
                 /\ \A h \in 1..Len(c.handlers) : c.handlers[h].i = SamplesPerClick


\* A trial of the legacy paradigm has been started or logged
LegacyTrialStarted(l) ==
    \/ l.pc \in {"trials", "shown", "complete", "saving", "done"}
    \/ l.trialData # <<>>
    \/ l.startTime # 0

\* The latest call listed in calls, made by the step under way
LegacyCalled(name) ==
    /\ Len(legacy'.calls) = Len(legacy.calls) + 1
    /\ legacy'.calls[Len(legacy'.calls)] = name

\* C35: in the legacy paradigm no trial runs before the calibration is
\* complete: a trial is started or logged only with calibrationComplete
\* true; calibrationComplete is true only once each of the predefined
\* calibration points has been clicked; startExperiment called while
\* calibrationComplete is false does nothing; and startCalibrationPhase
\* called while the calibration is in progress or complete starts nothing.
C35_NoTrialBeforeCalibration ==
    [][/\ LegacyTrialStarted(legacy') => legacy'.calibrationComplete
       /\ legacy'.calibrationComplete
             => legacy'.recorded = [k \in 1..PredefinedPositions |-> k - 1]
       /\ (LegacyCalled("startExperiment") /\ ~legacy.calibrationComplete)
             => legacy' = [legacy EXCEPT !.calls = legacy'.calls]
       /\ (/\ LegacyCalled("startCalibrationPhase")
           /\ legacy.calibrationInProgress \/ legacy.calibrationComplete)
             => legacy' = [legacy EXCEPT !.calls = legacy'.calls]]_vars

\* C35 witness: startExperiment was called during the calibration,
\* startCalibrationPhase a second time, and the trials ran after the ninth
\* click.
C35_Witness ==
    /\ legacy.calls = <<"startCalibrationPhase", "startExperiment",
                        "startCalibrationPhase">>
    /\ Len(legacy.recorded) = PredefinedPositions
    /\ Len(legacy.trialData) = MaxTrials
    /\ legacy.pc = "done"

\* C39: in the legacy paradigm the gazeData of a trial that runTrial has
\* appended to trialData is never modified afterwards, however the calls of
\* the gaze listener interleave with the later trials and with the final
\* save and download.
C39_LoggedGazeDataFrozen ==
    [][\A k \in 1..Len(legacy.trialData) :
          legacy'.gazeArrays[legacy'.trialData[k].gazeData]
              = legacy.gazeArrays[legacy.trialData[k].gazeData]]_vars

====
